---- MODULE Spec2Model ----
(***************************************************************************)
(* Photo Selector: the ingestion/dedup pipeline (PhotoManager and the      *)
(* PHOTOS_UPLOAD / PHOTOS_DELETE / PROJECT_* handlers), the scoring run    *)
(* (ClaudeVisionService) and the grouping run (SimilarityGroupingService), *)
(* modelled over the photo store (the projects and photos tables) and the  *)
(* files under the storage path.                                           *)
(*                                                                         *)
(* Handlers are taken one at a time (the single-writer assumption of the   *)
(* application: a trigger is disabled while its run is in flight); a       *)
(* handler that awaits inside a loop is one action per loop iteration.     *)
(***************************************************************************)
EXTENDS Integers, Sequences, FiniteSets, TLC

VARIABLES
    projects,    \* projects table: id -> [name]
    projectSeq,  \* AUTOINCREMENT counter of projects
    photos,      \* photos table: id -> row
    photoSeq,    \* AUTOINCREMENT counter of photos
    disk,        \* files under the storage path: path -> content
    dirs,        \* project directories that exist (originals, thumbnails, exports inside)
    up,          \* the PHOTOS_UPLOAD request in flight, or the last one's outcome
    upEvents,    \* UPLOAD_PROGRESS events sent by the current/last upload request
    run,         \* the scoring or grouping run in flight, or the last one's outcome
    bat,         \* the batch the run is at (or was at last): its attempts and waits
    anEvents,    \* ANALYZE_PROGRESS events sent by the current/last scoring run
    part,        \* the batch loop on its own: the list, the batch size, the slices so far
    calc,        \* a call on its own, outside the loops: its name, its argument, its value
    tasks,       \* requests handled at the same time: task -> its position and locals
    win          \* the windows: the one that exists, the one the handlers send to

storeVars == <<projects, projectSeq, photos, photoSeq, disk, dirs>>
uploadVars == <<up, upEvents>>
runVars == <<run, bat, anEvents>>
vars == <<projects, projectSeq, photos, photoSeq, disk, dirs, up, upEvents,
          run, bat, anEvents, part, calc, tasks, win>>

----------------------------------------------------------------------------
(* Bounds of the model *)

MaxProjects == 2
MaxPhotoId == 2
MaxFiles == 2

----------------------------------------------------------------------------
(* Values *)

\* SQL NULL and a non-null column value
NULL == <<>>
Some(v) == <<v>>

Range(s) == {s[k] : k \in DOMAIN s}

\* String(counter) of the template literal `${base}_${counter}${ext}`
CounterStr(n) ==
    <<"1", "2", "3", "4", "5", "6", "7", "8", "9", "10", "11", "12",
      "13", "14", "15", "16", "17", "18", "19", "20", "21", "22", "23", "24">>[n]

\* Project names the user may type: characters of a name, in order
ProjectNames == {<<"u">>, <<"t", "/">>}

\* name.replace(/[^0-9A-Za-z.\-\s]/g, '_')
SanitizeChar(c) == IF c \in {"t", "u", ".", "-", " "} THEN c ELSE "_"

RECURSIVE TrimLeft(_)
TrimLeft(s) == IF s # <<>> /\ Head(s) = " " THEN TrimLeft(Tail(s)) ELSE s

RECURSIVE TrimRight(_)
TrimRight(s) ==
    IF s # <<>> /\ s[Len(s)] = " " THEN TrimRight(SubSeq(s, 1, Len(s) - 1)) ELSE s

\* PhotoManager.sanitizeName
sanitizeName(name) == TrimRight(TrimLeft([k \in DOMAIN name |-> SanitizeChar(name[k])]))

\* PhotoManager.getProjectPath: the directory of a project under the storage path
getProjectPath(projectName) == sanitizeName(projectName)

\* A file name: its stem as the "_"-separated parts, and its extension
FileName(stem, ext) == [stem |-> stem, ext |-> ext]

\* path.join(projectPath, sub, filename)
Path(dir, sub, name) == [dir |-> dir, sub |-> sub, name |-> name]

\* Files the user may pick: name, content hash (sha256 of the bytes), readable or not
SourceFiles ==
    {[name |-> FileName(<<"a">>, "jpg"), hash |-> "h1", readable |-> TRUE],
     [name |-> FileName(<<"a">>, "jpg"), hash |-> "h2", readable |-> TRUE],
     [name |-> FileName(<<"a">>, "png"), hash |-> "h2", readable |-> TRUE],
     [name |-> FileName(<<"a">>, "png"), hash |-> "h3", readable |-> FALSE]}

\* What the thumbnail producer does for one file: a thumbnail, a placeholder
\* after sharp threw, or nothing when the placeholder failed as well
ThumbOutcomes == {"thumb", "placeholder", "none"}

RECURSIVE SeqsUpTo(_, _)
SeqsUpTo(S, n) ==
    IF n = 0 THEN {<<>>}
    ELSE LET shorter == SeqsUpTo(S, n - 1)
         IN  shorter \cup {Append(s, x) : s \in {t \in shorter : Len(t) = n - 1}, x \in S}

----------------------------------------------------------------------------
(* The store as one value, so that an operation is a function of it *)

Store == [projects |-> projects, projectSeq |-> projectSeq, photos |-> photos,
          photoSeq |-> photoSeq, disk |-> disk, dirs |-> dirs]

EmptyStore == [projects |-> <<>>, projectSeq |-> 0, photos |-> <<>>,
               photoSeq |-> 0, disk |-> <<>>, dirs |-> {}]

SetStore(S) ==
    /\ projects' = S.projects
    /\ projectSeq' = S.projectSeq
    /\ photos' = S.photos
    /\ photoSeq' = S.photoSeq
    /\ disk' = S.disk
    /\ dirs' = S.dirs

\* f with key k set to v (k added when it is new)
Put(f, k, v) == [x \in DOMAIN f \cup {k} |-> IF x = k THEN v ELSE f[x]]

\* f without the keys in K
Drop(f, K) == [x \in DOMAIN f \ K |-> f[x]]

\* fsSync.existsSync(path)
existsSync(S, p) == p \in DOMAIN S.disk

\* PhotoManager.createDirectories: mkdir -p of the three subdirectories
createDirectories(S, projectName) ==
    [S EXCEPT !.dirs = @ \cup {getProjectPath(projectName)}]

\* PhotoManager.deleteProjectFiles: rm -r of the project path when it exists
deleteProjectFiles(S, projectName) ==
    LET dir == getProjectPath(projectName)
    IN  IF dir \in S.dirs
        THEN [S EXCEPT !.dirs = @ \ {dir},
                       !.disk = Drop(@, {p \in DOMAIN @ : p.dir = dir})]
        ELSE S

----------------------------------------------------------------------------
(* PhotoManager.processUpload *)

\* FindByHash with the project forgotten: a lookup by hash alone
FindByHashAnyProject(S, projectId, fileHash) ==
    {id \in DOMAIN S.photos : S.photos[id].file_hash = fileHash}

\* FindByHash with the lookup left out: no photo is ever found
FindByHashNever(S, projectId, fileHash) == {}

\* SELECT * FROM photos WHERE project_id = ? AND file_hash = ?
FindByHash(S, projectId, fileHash) ==
    {id \in DOMAIN S.photos :
        S.photos[id].project_id = projectId /\ S.photos[id].file_hash = fileHash}

\* The while loop that looks for a free name in originals: the name itself, then
\* base_1.ext, base_2.ext, ... ; counter is the next suffix to try
RECURSIVE FreeName(_, _, _, _, _)
FreeName(S, dir, filename, current, counter) ==
    IF existsSync(S, Path(dir, "originals", current))
    THEN FreeName(S, dir, filename,
                  FileName(Append(filename.stem, CounterStr(counter)), filename.ext),
                  counter + 1)
    ELSE current

\* `${path.parse(originalFilename).name}_thumb.jpg`
ThumbnailName(originalFilename) == FileName(Append(originalFilename.stem, "thumb"), "jpg")

\* FinalThumbnailPath with the fallback left out
ThumbnailPathAlways(thumbnailGenerated, thumbnailPath, originalPath) == thumbnailPath

\* const finalThumbnailPath = thumbnailGenerated ? thumbnailPath : originalPath
FinalThumbnailPath(thumbnailGenerated, thumbnailPath, originalPath) ==
    IF thumbnailGenerated THEN thumbnailPath ELSE originalPath

\* The result of processUpload(project, filePath) in store S, when the thumbnail
\* producer behaves as `thumb`: [threw, duplicate, photo, store]
processUpload(S, projectId, src, thumb) ==
    IF ~src.readable
    THEN \* fs.readFile rejects
         [threw |-> TRUE, duplicate |-> FALSE, photo |-> 0, store |-> S]
    ELSE
    LET existing == FindByHash(S, projectId, src.hash) IN
    IF existing # {}
    THEN [threw |-> FALSE, duplicate |-> TRUE, photo |-> 0, store |-> S]
    ELSE
    LET projectName == S.projects[projectId].name
        dir == getProjectPath(projectName)
        S1 == createDirectories(S, projectName)
        originalFilename == FreeName(S1, dir, src.name, src.name, 1)
        originalPath == Path(dir, "originals", originalFilename)
        \* fs.copyFile(filePath, originalPath)
        S2 == [S1 EXCEPT !.disk = Put(@, originalPath, [kind |-> "original", of |-> src.hash])]
        thumbnailPath == Path(dir, "thumbnails", ThumbnailName(originalFilename))
        thumbnailGenerated == thumb # "none"
        \* sharp(...).toFile(thumbnailPath), or fs.writeFile(thumbnailPath, placeholder)
        S3 == IF thumbnailGenerated
              THEN [S2 EXCEPT !.disk = Put(@, thumbnailPath, [kind |-> thumb, of |-> src.hash])]
              ELSE S2
        finalThumbnailPath == FinalThumbnailPath(thumbnailGenerated, thumbnailPath, originalPath)
        id == S3.photoSeq + 1
        row == [project_id |-> projectId,
                original_filename |-> originalFilename,
                original_path |-> originalPath,
                thumbnail_path |-> finalThumbnailPath,
                file_hash |-> src.hash,
                score |-> NULL,
                ai_comment |-> NULL,
                selected |-> FALSE,
                similarity_group_id |-> NULL]
        S4 == [S3 EXCEPT !.photos = Put(@, id, row), !.photoSeq = id]
    IN  [threw |-> FALSE, duplicate |-> FALSE, photo |-> id, store |-> S4]

----------------------------------------------------------------------------
(* Handlers of the store *)

\* FindProject with the lookup left out: every id is taken for a project
FindProjectAny(S, projectId) == {projectId}

\* SELECT * FROM projects WHERE id = ?, as the set of the ids found
FindProject(S, projectId) == {projectId} \cap DOMAIN S.projects

\* No run yet. photos: the rows the run selected, by id, in order; i: the loop
\* index; stale: the photos whose group id was written before the run started;
\* calls: the service calls the run has made; statuses: how each batch the loop
\* has passed ended, in order; error: what the handler rejected with, when it did
NoRun == [kind |-> "none", pc |-> "idle", projectId |-> 0, photos |-> <<>>, i |-> 0,
          total |-> 0, processed |-> 0, retryCount |-> 0, nextGroupId |-> 1,
          result |-> 0, stale |-> {}, calls |-> 0, statuses |-> <<>>,
          error |-> "none"]

\* What ANALYZE_PHOTOS and GROUP_SIMILAR throw before the service is built: the
\* key is looked up first, the project second
RequestError(hasKey) ==
    IF ~hasKey THEN "API key not configured" ELSE "Project not found"

\* No batch yet. ids: the batch; outcomes: what the service did at each call;
\* waits: the delays slept, in ms; status: running, ok (resolved), failed
\* (rejected) or skipped (fewer than 2 photos, grouping)
\* ignored: the ids named by the response that the reconciler passed over
NoBatch == [ids |-> <<>>, outcomes |-> <<>>, waits |-> <<>>, status |-> "none",
            ignored |-> {}]

\* No function applied yet; done: the value is computed
NoCalc == [op |-> "none", input |-> <<>>, output |-> <<>>, done |-> FALSE]

\* No request is handled beside the one of up and run
NoTasks == <<>>

\* The window createWindow made at start: it exists, and the handlers registered
\* with it send their events to it
OneWindow == [current |-> 1, bound |-> 1, opened |-> 1]

\* mainWindow.webContents.send reaches a renderer: the window the handlers
\* were registered with is the one that exists
WindowAlive == win.bound = win.current

\* The batch loop before it starts
NoPart == [list |-> <<>>, size |-> 1, i |-> 0, batches |-> <<>>]

\* PROJECT_CREATE on a store: insert the row, create the directories
createProject(S, name) ==
    LET id == S.projectSeq + 1
    IN  createDirectories([S EXCEPT !.projects = Put(@, id, [name |-> name]),
                                    !.projectSeq = id], name)

Idle == up.pc # "loop" /\ run.pc # "loop"

\* filePaths holds the files of the request that the loop has not reached yet,
\* i the number of files it is done with, total filePaths.length
\* error: what the handler rejected with, when it did
NoUpload == [pc |-> "idle", projectId |-> 0, filePaths |-> <<>>, i |-> 0, total |-> 0,
             uploaded |-> 0, duplicates |-> 0, photos |-> <<>>, error |-> "none"]

\* PROJECT_CREATE: insert the row, create the directories
ProjectCreate(name) ==
    /\ UNCHANGED <<part, calc, tasks, win>>
    /\ Idle
    /\ projectSeq < MaxProjects
    /\ SetStore(createProject(Store, name))
    /\ UNCHANGED <<uploadVars, runVars>>

\* DeleteProjectRow without the cascade: the project's row alone
DeleteProjectRowOnly(S, id) == [S EXCEPT !.projects = Drop(@, {id})]

\* DELETE FROM projects WHERE id = ? with ON DELETE CASCADE on photos.project_id
DeleteProjectRow(S, id) ==
    [S EXCEPT !.projects = Drop(@, {id}),
              !.photos = Drop(@, {p \in DOMAIN @ : @[p].project_id = id})]

\* PROJECT_DELETE
ProjectDelete(id) ==
    /\ UNCHANGED <<part, calc, tasks, win>>
    /\ Idle
    /\ IF id \in DOMAIN projects
       THEN SetStore(deleteProjectFiles(DeleteProjectRow(Store, id), projects[id].name))
       ELSE UNCHANGED storeVars
    /\ UNCHANGED <<uploadVars, runVars>>

\* PHOTOS_DELETE: unlink the original and the thumbnail when they exist, delete the row
PhotosDelete(id) ==
    /\ UNCHANGED <<part, calc, tasks, win>>
    /\ Idle
    /\ IF id \in DOMAIN photos
       THEN SetStore([Store EXCEPT
                !.disk = Drop(@, {photos[id].original_path, photos[id].thumbnail_path}),
                !.photos = Drop(@, {id})])
       ELSE UNCHANGED storeVars
    /\ UNCHANGED <<uploadVars, runVars>>

\* PHOTOS_UPDATE_SELECTION: UPDATE photos SET selected = ? WHERE id IN (photoIds)
PhotosUpdateSelection(photoIds, selected) ==
    /\ UNCHANGED <<part, calc, tasks, win>>
    /\ Idle
    /\ photos' = [id \in DOMAIN photos |->
                     IF id \in Range(photoIds)
                     THEN [photos[id] EXCEPT !.selected = selected] ELSE photos[id]]
    /\ UNCHANGED <<projects, projectSeq, photoSeq, disk, dirs, uploadVars, runVars>>

\* PHOTOS_UPLOAD, up to the loop: the project lookup
PhotosUpload(projectId, filePaths) ==
    /\ UNCHANGED <<part, calc, tasks, win>>
    /\ Idle
    /\ up' = IF FindProject(Store, projectId) # {}
             THEN [NoUpload EXCEPT !.pc = "loop", !.projectId = projectId,
                                   !.filePaths = filePaths, !.total = Len(filePaths)]
             ELSE [NoUpload EXCEPT !.pc = "threw", !.projectId = projectId,
                                   !.filePaths = filePaths, !.total = Len(filePaths),
                                   !.error = "Project not found"]
    /\ upEvents' = <<>>
    /\ UNCHANGED <<storeVars, runVars>>

\* One iteration of the loop of PHOTOS_UPLOAD: processUpload, the counts, the
\* progress event. A rejection of processUpload rejects the handler.
UploadNext(thumb) ==
    /\ UNCHANGED <<part, calc, tasks, win>>
    /\ WindowAlive
    /\ up.pc = "loop"
    /\ up.filePaths # <<>>
    /\ UNCHANGED runVars
    /\ LET src == Head(up.filePaths)
           r == processUpload(Store, up.projectId, src, thumb)
       IN  /\ IF r.threw
              THEN /\ up' = [up EXCEPT !.pc = "threw", !.error = "readFile"]
                   /\ UNCHANGED upEvents
                   /\ UNCHANGED storeVars
              ELSE /\ SetStore(r.store)
                   /\ up' = [up EXCEPT
                         !.filePaths = Tail(@),
                         !.i = @ + 1,
                         !.duplicates = IF r.duplicate THEN @ + 1 ELSE @,
                         !.uploaded = IF r.duplicate THEN @ ELSE @ + 1,
                         !.photos = IF r.duplicate THEN @ ELSE Append(@, r.photo)]
                   /\ upEvents' = Append(upEvents,
                         [current |-> up.i + 1, total |-> up.total,
                          filename |-> src.name])

\* The same, while the photo ids stay within MaxPhotoId
UploadFile(thumb) ==
    /\ up.pc = "loop"
    /\ up.filePaths # <<>>
    /\ processUpload(Store, up.projectId, Head(up.filePaths), thumb).store.photoSeq
          <= MaxPhotoId
    /\ UploadNext(thumb)

\* PHOTOS_UPLOAD: return results
UploadReturn ==
    /\ UNCHANGED <<part, calc, tasks, win>>
    /\ up.pc = "loop"
    /\ up.filePaths = <<>>
    /\ up' = [up EXCEPT !.pc = "returned"]
    /\ UNCHANGED <<storeVars, upEvents, runVars>>

----------------------------------------------------------------------------
(* The vision service and its response text *)

\* const BATCH_SIZE of the scoring service and of the grouping service
BATCH_SIZE == 10
GROUPING_BATCH_SIZE == 20

\* if (error.status === 429 && retryCount < 3): the retries allowed
RETRY_LIMIT == 3
\* const waitTime = (retryCount + 1) * 5000
RETRY_DELAY_MS == 5000

Min(a, b) == IF a <= b THEN a ELSE b

\* slice with its end one short
sliceShort(list, i, size) == SubSeq(list, i + 1, Min(i + size - 1, Len(list)))

\* photos.slice(i, i + size), i counted from 0
slice(list, i, size) == SubSeq(list, i + 1, Min(i + size, Len(list)))

\* ORDER BY id: the ids of the set, in the order of 1, 2, 3, ...
OrderById(ids) ==
    IF ids = {} THEN <<>>
    ELSE SelectSeq([k \in 1..(CHOOSE m \in ids : \A y \in ids : y <= m) |-> k],
                   LAMBDA k : k \in ids)

\* A response text: a JSON or non-JSON body, fenced (``` or ```json) or not, with or
\* without prose around it. A body is a JSON object with the expected list
\* ("list"), a JSON value without it ("nolist"), or no JSON at all ("garbage").
Body(kind, items) == [kind |-> kind, items |-> items]
Garbage == Body("garbage", <<>>)
Fences == {"none", "plain", "json"}
Text(fence, prose, body) == [fence |-> fence, prose |-> prose, body |-> body]
Texts(bodies) == [fence : Fences, prose : BOOLEAN, body : bodies]

\* jsonMatch ? jsonMatch[1] : text.trim(): the interior of the first fenced block,
\* or the whole trimmed text, which is no JSON when prose surrounds the body
JsonStr(text) ==
    IF text.fence # "none" THEN text.body
    ELSE IF text.prose THEN Garbage ELSE text.body

\* parseResponse: JSON.parse(jsonStr), or the empty list when it throws
parseResponse(text) ==
    LET json == JsonStr(text)
    IN  IF json.kind = "garbage" THEN Body("list", <<>>) ELSE json

\* What one call of client.messages.create may do: reject with status 429, reject
\* with another error, resolve with a text block, resolve with a non-text block
Outcomes(bodies) ==
    {[kind |-> "429"], [kind |-> "err"], [kind |-> "nontext"]}
    \cup [kind : {"text"}, text : Texts(bodies)]

\* SimilarityGroupingService.parseResponse: the same, for { groups }
parseGroupResponse(text) ==
    LET json == JsonStr(text)
    IN  IF json.kind = "garbage" THEN Body("list", <<>>) ELSE json

\* The tag kept in bat.outcomes for an outcome, `parsed` being its text parsed: a
\* text that carries the expected list, or no JSON at all, is "ok"; a JSON text
\* without the list is "nolist"
Tag(outcome, parsed) ==
    IF outcome.kind # "text" THEN outcome.kind
    ELSE IF parsed.kind = "list" THEN "ok" ELSE "nolist"

\* fs.readFile(photo.thumbnail_path) resolves
Readable(S, id) == S.photos[id].thumbnail_path \in DOMAIN S.disk

\* The photos of the batch whose image made it into the request content
Content(S, batch) == {id \in Range(batch) : Readable(S, id)}

----------------------------------------------------------------------------
(* ClaudeVisionService: the scoring run *)

\* Scores the service may put in an evaluation, in hundredths (855 is 8.55)
ScoreInputs == {-10, 855, 1050}
Comments == {"c"}

\* RoundScore without the rounding: the score as given, in hundredths
KeepScore(score) == score

\* Math.round(evaluation.score * 10) / 10, in tenths (Math.round rounds half up)
RoundScore(score) == (score + 5) \div 10

\* InBatch with the lookup in the batch left out: the UPDATE by photo_id alone
InBatchAny(batch, photo_id) == TRUE

\* photos.find((p) => p.id === evaluation.photo_id)
InBatch(batch, photo_id) == photo_id \in Range(batch)

\* The loop over parsed.evaluations: UPDATE photos SET score, ai_comment WHERE id
RECURSIVE saveEvaluations(_, _, _)
saveEvaluations(P, batch, evaluations) ==
    IF evaluations = <<>> THEN P
    ELSE LET e == Head(evaluations)
             P1 == IF InBatch(batch, e.photo_id) /\ e.photo_id \in DOMAIN P
                   THEN [P EXCEPT ![e.photo_id].score = Some(RoundScore(e.score)),
                                  ![e.photo_id].ai_comment = Some(e.comment)]
                   ELSE P
         IN  saveEvaluations(P1, batch, Tail(evaluations))

\* UnscoredPhotos without the test of the score: every photo of the project
PhotosOfAnyScore(S, projectId) ==
    OrderById({id \in DOMAIN S.photos : S.photos[id].project_id = projectId})

\* SELECT * FROM photos WHERE project_id = ? AND score IS NULL ORDER BY id
UnscoredPhotos(S, projectId) ==
    OrderById({id \in DOMAIN S.photos :
        S.photos[id].project_id = projectId /\ S.photos[id].score = NULL})

\* CatchBatchError with the error thrown on: the run ends at the failed batch
RethrowBatchError(r, size) ==
    [r EXCEPT !.pc = "threw", !.retryCount = 0, !.statuses = Append(@, "failed")]

\* CatchBatchError with the retry count of the failed batch carried over to the
\* next batch
CatchBatchErrorKeepRetries(r, size) ==
    [r EXCEPT !.i = @ + size, !.statuses = Append(@, "failed")]

\* The catch around the batch call in the loop of analyzePhotos / groupPhotos: the
\* error is logged and the loop goes on with the next batch
CatchBatchError(r, size) ==
    [r EXCEPT !.i = @ + size, !.retryCount = 0, !.statuses = Append(@, "failed")]

\* Progress without the count of the photos processed so far
ProgressWithoutCount(current, total, message) ==
    [current |-> 0, total |-> total, message |-> message]

Progress(current, total, message) ==
    [current |-> current, total |-> total, message |-> message]

\* ShouldRetry with one retry too many
ShouldRetryOnceMore(tag, retryCount) == tag = "429" /\ retryCount <= RETRY_LIMIT

\* ShouldRetry with the status left out: every error is retried
ShouldRetryAnyError(tag, retryCount) == retryCount < RETRY_LIMIT

\* analyzeBatch: if (error.status === 429 && retryCount < 3)
ShouldRetry(tag, retryCount) == tag = "429" /\ retryCount < RETRY_LIMIT

\* analyzeBatch: const waitTime = (retryCount + 1) * 5000
WaitTime(retryCount) == (retryCount + 1) * RETRY_DELAY_MS

\* ANALYZE_PHOTOS up to the loop of analyzePhotos: the key and project lookups,
\* the selection of the unscored photos
AnalyzePhotos(projectId, hasKey) ==
    /\ UNCHANGED <<part, calc, tasks, win>>
    /\ Idle
    /\ LET list == UnscoredPhotos(Store, projectId)
       IN  run' = IF ~hasKey \/ FindProject(Store, projectId) = {}
                  THEN [NoRun EXCEPT !.kind = "score", !.pc = "threw",
                                     !.projectId = projectId,
                                     !.error = RequestError(hasKey)]
                  ELSE IF Len(list) = 0
                  THEN [NoRun EXCEPT !.kind = "score", !.pc = "returned",
                                     !.projectId = projectId]
                  ELSE [NoRun EXCEPT !.kind = "score", !.pc = "loop",
                                     !.projectId = projectId, !.photos = list,
                                     !.total = Len(list)]
    /\ bat' = NoBatch
    /\ anEvents' = <<>>
    /\ UNCHANGED <<storeVars, uploadVars>>

\* One call of analyzeBatch(batch, retryCount) and what analyzePhotos does when it
\* settles; the first call for a batch follows the progress event of the loop
AnalyzeBatch(outcome) ==
    /\ UNCHANGED <<part, calc, tasks, win>>
    /\ WindowAlive
    /\ run.kind = "score" /\ run.pc = "loop"
    /\ run.i < Len(run.photos)
    /\ LET batch == slice(run.photos, run.i, BATCH_SIZE)
           first == run.retryCount = 0
           events == IF first
                     THEN Append(anEvents, Progress(run.processed, run.total, "batch"))
                     ELSE anEvents
           b == IF first THEN [NoBatch EXCEPT !.ids = batch, !.status = "running"] ELSE bat
           parsed == parseResponse(outcome.text)
           tag == Tag(outcome, parsed)
           called == [run EXCEPT !.calls = @ + 1]
           resolved(r) == /\ run' = [r EXCEPT !.processed = @ + Len(batch),
                                              !.i = @ + BATCH_SIZE, !.retryCount = 0,
                                              !.statuses = Append(@, "ok")]
                          /\ anEvents' = events
           rejected(r) == /\ run' = CatchBatchError(r, BATCH_SIZE)
                          /\ anEvents' = Append(events,
                                                Progress(run.processed, run.total, "error"))
       IN  IF Content(Store, batch) = {}
           THEN \* if (content.length === 0) return: no call is made
                /\ outcome.kind = "nocall"
                /\ bat' = [b EXCEPT !.status = "ok"]
                /\ resolved(run)
                /\ UNCHANGED storeVars
           ELSE
           /\ outcome.kind # "nocall"
           /\ CASE tag = "ok" ->
                     /\ photos' = saveEvaluations(photos, batch, parsed.items)
                     /\ bat' = [b EXCEPT !.outcomes = Append(@, tag), !.status = "ok",
                                         !.ignored = {e.photo_id : e \in Range(parsed.items)}
                                                     \ Range(batch)]
                     /\ resolved(called)
                     /\ UNCHANGED <<projects, projectSeq, photoSeq, disk, dirs>>
                [] tag = "nontext" ->
                     /\ bat' = [b EXCEPT !.outcomes = Append(@, tag), !.status = "ok"]
                     /\ resolved(called)
                     /\ UNCHANGED storeVars
                [] tag = "nolist" ->
                     \* for (... of undefined) throws a TypeError inside the try
                     /\ bat' = [b EXCEPT !.outcomes = Append(@, tag), !.status = "failed"]
                     /\ rejected(called)
                     /\ UNCHANGED storeVars
                [] tag \in {"429", "err"} ->
                     IF ShouldRetry(tag, run.retryCount)
                     THEN /\ bat' = [b EXCEPT !.outcomes = Append(@, tag),
                                              !.waits = Append(@, WaitTime(run.retryCount))]
                          /\ run' = [called EXCEPT !.retryCount = @ + 1]
                          /\ anEvents' = events
                          /\ UNCHANGED storeVars
                     ELSE /\ bat' = [b EXCEPT !.outcomes = Append(@, tag),
                                              !.status = "failed"]
                          /\ rejected(called)
                          /\ UNCHANGED storeVars
    /\ UNCHANGED uploadVars

\* analyzePhotos after the loop: the completion event and the return value
AnalyzeReturn ==
    /\ UNCHANGED <<part, calc, tasks, win>>
    /\ WindowAlive
    /\ run.kind = "score" /\ run.pc = "loop"
    /\ run.i >= Len(run.photos)
    /\ run' = [run EXCEPT !.pc = "returned", !.result = run.processed]
    /\ anEvents' = Append(anEvents, Progress(run.processed, run.total, "complete"))
    /\ UNCHANGED <<storeVars, uploadVars, bat>>

----------------------------------------------------------------------------
(* SimilarityGroupingService: the grouping run *)

\* SkipsBatch without the test: a batch of one photo is sent to the service
SkipsBatchNever(batch) == FALSE

\* groupPhotos: if (batch.length < 2) continue
SkipsBatch(batch) == Len(batch) < 2

\* GroupShouldRetry with one retry too many
GroupShouldRetryOnceMore(tag, retryCount) == tag = "429" /\ retryCount <= RETRY_LIMIT

\* processBatch: if (error.status === 429 && retryCount < 3)
GroupShouldRetry(tag, retryCount) == tag = "429" /\ retryCount < RETRY_LIMIT

\* processBatch: const waitTime = (retryCount + 1) * 5000
GroupWaitTime(retryCount) == (retryCount + 1) * RETRY_DELAY_MS

\* ClearGroups without the WHERE clause: the group ids of every project
ClearAllGroups(P, projectId) ==
    [id \in DOMAIN P |-> [P[id] EXCEPT !.similarity_group_id = NULL]]

\* UPDATE photos SET similarity_group_id = NULL WHERE project_id = ?
ClearGroups(P, projectId) ==
    [id \in DOMAIN P |->
        IF P[id].project_id = projectId
        THEN [P[id] EXCEPT !.similarity_group_id = NULL] ELSE P[id]]

\* ClearExisting left out
ClearNothing(P, projectId) == P

\* The first statement of groupPhotos: the groups of the project are cleared
ClearExisting(P, projectId) == ClearGroups(P, projectId)

\* SELECT * FROM photos WHERE project_id = ? ORDER BY id
ProjectPhotos(S, projectId) ==
    OrderById({id \in DOMAIN S.photos : S.photos[id].project_id = projectId})

\* photos.filter((p) => photoIds.includes(p.id)), as the ids kept
GroupPhotosOf(batch, photoIds) == {id \in Range(batch) : id \in Range(photoIds)}

\* UPDATE photos SET similarity_group_id = ? WHERE id = ?, for each photo kept
SetGroup(P, ids, groupId) ==
    [id \in DOMAIN P |->
        IF id \in ids THEN [P[id] EXCEPT !.similarity_group_id = Some(groupId)] ELSE P[id]]

\* NextId without the increment: every group of the run gets the same id
NextIdSame(nextGroupId) == nextGroupId

\* assignGroups: const groupId = this.nextGroupId++, as the id of the next group
NextId(nextGroupId) == nextGroupId + 1

\* assignGroups(photos, groups, db): the photos table, the next group id and the
\* photos written, after the proposals in `groups` are taken in order
RECURSIVE assignGroups(_, _, _, _, _)
assignGroups(P, batch, groups, nextGroupId, written) ==
    IF groups = <<>>
    THEN [photos |-> P, nextGroupId |-> nextGroupId, written |-> written]
    ELSE LET photoIds == Head(groups).photo_ids
             groupPhotos == GroupPhotosOf(batch, photoIds)
         IN  IF Len(photoIds) < 2 \/ Cardinality(groupPhotos) < 2
             THEN assignGroups(P, batch, Tail(groups), nextGroupId, written)
             ELSE assignGroups(SetGroup(P, groupPhotos \cap DOMAIN P, nextGroupId), batch,
                               Tail(groups), NextId(nextGroupId), written \cup groupPhotos)

\* CountGroups without DISTINCT: the photos of the project that hold a group id
CountGrouped(S, projectId) ==
    Cardinality({x \in DOMAIN S.photos : /\ S.photos[x].project_id = projectId
                                         /\ S.photos[x].similarity_group_id # NULL})

\* SELECT COUNT(DISTINCT similarity_group_id) ... WHERE project_id = ? AND
\* similarity_group_id IS NOT NULL
CountGroups(S, projectId) ==
    Cardinality({S.photos[id].similarity_group_id : id \in
        {x \in DOMAIN S.photos : /\ S.photos[x].project_id = projectId
                                 /\ S.photos[x].similarity_group_id # NULL}})

\* GROUP_SIMILAR up to the loop of groupPhotos: the key and project lookups, the
\* clearing of the project's group ids, the selection of its photos
GroupSimilar(projectId, hasKey) ==
    /\ UNCHANGED <<part, calc, tasks, win>>
    /\ Idle
    /\ bat' = NoBatch
    /\ IF ~hasKey \/ FindProject(Store, projectId) = {}
       THEN /\ run' = [NoRun EXCEPT !.kind = "group", !.pc = "threw",
                                    !.projectId = projectId,
                                    !.error = RequestError(hasKey)]
            /\ UNCHANGED storeVars
       ELSE LET list == ProjectPhotos(Store, projectId)
                old == {id \in DOMAIN photos : photos[id].similarity_group_id # NULL}
            IN  /\ photos' = ClearExisting(photos, projectId)
                /\ run' = [NoRun EXCEPT !.kind = "group",
                                        !.pc = IF Len(list) < 2 THEN "returned" ELSE "loop",
                                        !.projectId = projectId, !.photos = list,
                                        !.total = Len(list), !.stale = old]
                /\ UNCHANGED <<projects, projectSeq, photoSeq, disk, dirs>>
    /\ UNCHANGED <<uploadVars, anEvents>>

\* One iteration of the loop of groupPhotos up to the next await: a batch of fewer
\* than 2 photos is passed over, otherwise one call of processBatch(batch, retryCount)
GroupBatch(outcome) ==
    /\ UNCHANGED <<part, calc, tasks, win>>
    /\ run.kind = "group" /\ run.pc = "loop"
    /\ run.i < Len(run.photos)
    /\ LET batch == slice(run.photos, run.i, GROUPING_BATCH_SIZE)
           first == run.retryCount = 0
           b == IF first THEN [NoBatch EXCEPT !.ids = batch, !.status = "running"] ELSE bat
           parsed == parseGroupResponse(outcome.text)
           tag == Tag(outcome, parsed)
           called == [run EXCEPT !.calls = @ + 1]
           next(r, status) == [r EXCEPT !.i = @ + GROUPING_BATCH_SIZE, !.retryCount = 0,
                                        !.statuses = Append(@, status)]
       IN  IF SkipsBatch(batch)
           THEN \* continue
                /\ outcome.kind = "nocall"
                /\ bat' = [b EXCEPT !.status = "skipped"]
                /\ run' = next(run, "skipped")
                /\ UNCHANGED storeVars
           ELSE IF Content(Store, batch) = {}
           THEN \* if (content.length === 0) return: no call is made
                /\ outcome.kind = "nocall"
                /\ bat' = [b EXCEPT !.status = "ok"]
                /\ run' = next(run, "ok")
                /\ UNCHANGED storeVars
           ELSE
           /\ outcome.kind # "nocall"
           /\ CASE tag = "ok" ->
                     LET r == assignGroups(photos, batch, parsed.items, run.nextGroupId, {})
                     IN  /\ photos' = r.photos
                         /\ bat' = [b EXCEPT !.outcomes = Append(@, tag), !.status = "ok"]
                         /\ run' = [next(called, "ok") EXCEPT
                                        !.nextGroupId = r.nextGroupId,
                                        !.stale = @ \ r.written]
                         /\ UNCHANGED <<projects, projectSeq, photoSeq, disk, dirs>>
                [] tag = "nontext" ->
                     /\ bat' = [b EXCEPT !.outcomes = Append(@, tag), !.status = "ok"]
                     /\ run' = next(called, "ok")
                     /\ UNCHANGED storeVars
                [] tag = "nolist" ->
                     \* for (... of undefined) throws a TypeError inside the try
                     /\ bat' = [b EXCEPT !.outcomes = Append(@, tag), !.status = "failed"]
                     /\ run' = CatchBatchError(called, GROUPING_BATCH_SIZE)
                     /\ UNCHANGED storeVars
                [] tag \in {"429", "err"} ->
                     IF GroupShouldRetry(tag, run.retryCount)
                     THEN /\ bat' = [b EXCEPT !.outcomes = Append(@, tag),
                                              !.waits = Append(@, GroupWaitTime(run.retryCount))]
                          /\ run' = [called EXCEPT !.retryCount = @ + 1]
                          /\ UNCHANGED storeVars
                     ELSE /\ bat' = [b EXCEPT !.outcomes = Append(@, tag),
                                              !.status = "failed"]
                          /\ run' = CatchBatchError(called, GROUPING_BATCH_SIZE)
                          /\ UNCHANGED storeVars
    /\ UNCHANGED <<uploadVars, anEvents>>

\* groupPhotos after the loop: the count of the groups now in the project
GroupReturn ==
    /\ UNCHANGED <<part, calc, tasks, win>>
    /\ run.kind = "group" /\ run.pc = "loop"
    /\ run.i >= Len(run.photos)
    /\ run' = [run EXCEPT !.pc = "returned", !.result = CountGroups(Store, run.projectId)]
    /\ UNCHANGED <<storeVars, uploadVars, bat, anEvents>>

\* GROUP_CLEAR
GroupClear(projectId) ==
    /\ UNCHANGED <<part, calc, tasks, win>>
    /\ Idle
    /\ photos' = ClearGroups(photos, projectId)
    /\ UNCHANGED <<projects, projectSeq, photoSeq, disk, dirs, uploadVars, runVars>>

----------------------------------------------------------------------------
(* The store a run starts from: two projects, photos uploaded to them *)

MaxScorePhotos == 2
MaxGroupPhotos == 3
MaxEvaluations == 2
MaxProposals == 2
MaxProposalIds == 2

\* sha256 of the k-th file's bytes
HashStr(k) ==
    <<"h1", "h2", "h3", "h4", "h5", "h6", "h7", "h8", "h9", "h10", "h11", "h12",
      "h13", "h14", "h15", "h16", "h17", "h18", "h19", "h20", "h21", "h22", "h23", "h24">>[k]

\* The k-th file uploaded: p.jpg, p.png, then q_3.jpg, q_4.jpg, ...
RunFile(k) ==
    [name |-> IF k = 1 THEN FileName(<<"p">>, "jpg")
              ELSE IF k = 2 THEN FileName(<<"p">>, "png")
              ELSE FileName(<<"q", CounterStr(k)>>, "jpg"),
     hash |-> HashStr(k), readable |-> TRUE]

\* The store after files first..last are uploaded to the project, one by one
RECURSIVE UploadedStore(_, _, _, _)
UploadedStore(S, projectId, first, last) ==
    IF first > last THEN S
    ELSE UploadedStore(processUpload(S, projectId, RunFile(first), "thumb").store,
                       projectId, first + 1, last)

\* Projects 1 ("u") and 2 ("t/"), n photos in project 1 and one photo in project 2
RunStore(n) ==
    LET S2 == createProject(createProject(EmptyStore, <<"u">>), <<"t", "/">>)
    IN  UploadedStore(UploadedStore(S2, 1, 1, n), 2, n + 1, n + 1)

InitRun(max) ==
    /\ \E n \in 0..max :
          /\ projects = RunStore(n).projects
          /\ projectSeq = RunStore(n).projectSeq
          /\ photos = RunStore(n).photos
          /\ photoSeq = RunStore(n).photoSeq
          /\ disk = RunStore(n).disk
          /\ dirs = RunStore(n).dirs
    /\ up = NoUpload
    /\ upEvents = <<>>
    /\ run = NoRun
    /\ bat = NoBatch
    /\ anEvents = <<>>
    /\ part = NoPart
    /\ calc = NoCalc
    /\ tasks = NoTasks
    /\ win = OneWindow

InitScore == InitRun(MaxScorePhotos)
InitGroup == InitRun(MaxGroupPhotos)

\* Ids a request or a response may name: those of the photos and one more
ScorePhotoIds == 1..(MaxScorePhotos + 2)
GroupPhotoIds == 1..(MaxGroupPhotos + 1)
ProjectIds == 1..(MaxProjects + 1)

\* The evaluations and the responses the service may give to a scoring request
Evaluations == [photo_id : ScorePhotoIds, score : ScoreInputs, comment : Comments]
ScoreBodies ==
    {Body("list", items) : items \in SeqsUpTo(Evaluations, MaxEvaluations)}
    \cup {Body("nolist", <<>>), Garbage}
ScoreOutcomes == Outcomes(ScoreBodies) \cup {[kind |-> "nocall"]}

\* The proposals and the responses the service may give to a grouping request
Proposals == [photo_ids : SeqsUpTo(GroupPhotoIds, MaxProposalIds)]
GroupBodies ==
    {Body("list", items) : items \in SeqsUpTo(Proposals, MaxProposals)}
    \cup {Body("nolist", <<>>), Garbage}
GroupOutcomes == Outcomes(GroupBodies) \cup {[kind |-> "nocall"]}

NextScore ==
    \/ \E projectId \in ProjectIds, hasKey \in BOOLEAN : AnalyzePhotos(projectId, hasKey)
    \/ \E outcome \in ScoreOutcomes : AnalyzeBatch(outcome)
    \/ AnalyzeReturn
    \/ \E id \in ScorePhotoIds : PhotosDelete(id)

SpecScore == InitScore /\ [][NextScore]_vars

NextGroup ==
    \/ \E projectId \in ProjectIds, hasKey \in BOOLEAN : GroupSimilar(projectId, hasKey)
    \/ \E outcome \in GroupOutcomes : GroupBatch(outcome)
    \/ GroupReturn
    \/ \E projectId \in ProjectIds : GroupClear(projectId)
    \/ \E id \in GroupPhotoIds : PhotosDelete(id)

SpecGroup == InitGroup /\ [][NextGroup]_vars

\* Both services against a service that answers with an empty list, with no
\* list, with no JSON, or with an error: the retry policy of the two batch calls
RetryBodies == {Body("list", <<>>), Body("nolist", <<>>), Garbage}
RetryOutcomes == Outcomes(RetryBodies) \cup {[kind |-> "nocall"]}

NextRetry ==
    \/ \E projectId \in ProjectIds, hasKey \in BOOLEAN : AnalyzePhotos(projectId, hasKey)
    \/ \E outcome \in RetryOutcomes : AnalyzeBatch(outcome)
    \/ AnalyzeReturn
    \/ \E projectId \in ProjectIds, hasKey \in BOOLEAN : GroupSimilar(projectId, hasKey)
    \/ \E outcome \in RetryOutcomes : GroupBatch(outcome)
    \/ GroupReturn
    \/ \E id \in GroupPhotoIds : PhotosDelete(id)

SpecRetry == InitGroup /\ [][NextRetry]_vars

----------------------------------------------------------------------------
(* The three requests that name a project, with projects that come and go *)

InitRequests == InitRun(1)

\* The grouping service proposes photos 1 and 2 as one group, or fails
RequestGroupOutcomes ==
    Outcomes({Body("list", <<[photo_ids |-> <<1, 2>>]>>)}) \cup {[kind |-> "nocall"]}

NextRequests ==
    \/ \E id \in 1..MaxProjects : ProjectDelete(id)
    \/ \E projectId \in ProjectIds, filePaths \in SeqsUpTo(SourceFiles, 1) :
          PhotosUpload(projectId, filePaths)
    \/ \E thumb \in ThumbOutcomes : UploadFile(thumb)
    \/ UploadReturn
    \/ \E projectId \in ProjectIds, hasKey \in BOOLEAN : AnalyzePhotos(projectId, hasKey)
    \/ \E outcome \in RetryOutcomes : AnalyzeBatch(outcome)
    \/ AnalyzeReturn
    \/ \E projectId \in ProjectIds, hasKey \in BOOLEAN : GroupSimilar(projectId, hasKey)
    \/ \E outcome \in RequestGroupOutcomes : GroupBatch(outcome)
    \/ GroupReturn

SpecRequests == InitRequests /\ [][NextRequests]_vars

----------------------------------------------------------------------------
(* Upload, scoring and grouping of three files in one project, with a service *)
(* that evaluates every photo of a batch and groups photos 1 and 2, or fails  *)

\* Three files of distinct content, two of them of the same name
ThreeFiles ==
    <<[name |-> FileName(<<"a">>, "jpg"), hash |-> "h1", readable |-> TRUE],
      [name |-> FileName(<<"a">>, "jpg"), hash |-> "h2", readable |-> TRUE],
      [name |-> FileName(<<"a">>, "png"), hash |-> "h3", readable |-> TRUE]>>

\* The requests: the three files, in this order or the reverse
ThreeFileRequests == {ThreeFiles, <<ThreeFiles[3], ThreeFiles[2], ThreeFiles[1]>>}

InitThree ==
    /\ projects = createProject(EmptyStore, <<"u">>).projects
    /\ projectSeq = createProject(EmptyStore, <<"u">>).projectSeq
    /\ photos = <<>>
    /\ photoSeq = 0
    /\ disk = <<>>
    /\ dirs = createProject(EmptyStore, <<"u">>).dirs
    /\ up = NoUpload
    /\ upEvents = <<>>
    /\ run = NoRun
    /\ bat = NoBatch
    /\ anEvents = <<>>
    /\ part = NoPart
    /\ calc = NoCalc
    /\ tasks = NoTasks
    /\ win = OneWindow

\* Scores within 0.00 .. 10.00, in hundredths
ValidScores == {0, 855, 1000}

\* A response that evaluates photos 1, 2 and 3, as bare JSON or in a fenced block
ThreeEvaluations ==
    {<<[photo_id |-> 1, score |-> a, comment |-> "c"],
       [photo_id |-> 2, score |-> b, comment |-> "c"],
       [photo_id |-> 3, score |-> c, comment |-> "c"]>> : a, b, c \in ValidScores}
ThreeScoreOutcomes ==
    {[kind |-> "err"]}
    \cup {[kind |-> "text", text |-> t] :
            t \in {x \in Texts({Body("list", items) : items \in ThreeEvaluations}) :
                      x.fence = "none" => ~x.prose}}

\* A response that groups photos 1 and 2
ThreeGroupOutcomes ==
    {[kind |-> "err"]}
    \cup {[kind |-> "text", text |-> t] :
            t \in {x \in Texts({Body("list", <<[photo_ids |-> <<1, 2>>]>>)}) :
                      x.fence = "none" => ~x.prose}}

NextThree ==
    \/ \E filePaths \in ThreeFileRequests : PhotosUpload(1, filePaths)
    \/ \E thumb \in ThumbOutcomes : UploadNext(thumb)
    \/ UploadReturn
    \/ AnalyzePhotos(1, TRUE)
    \/ \E outcome \in ThreeScoreOutcomes : AnalyzeBatch(outcome)
    \/ AnalyzeReturn
    \/ GroupSimilar(1, TRUE)
    \/ \E outcome \in ThreeGroupOutcomes : GroupBatch(outcome)
    \/ GroupReturn

SpecThree == InitThree /\ [][NextThree]_vars

----------------------------------------------------------------------------
(* The handlers that write photo rows, on two projects of up to two photos each *)

\* Project 1 holds photo 1 and project 2 holds photo 2
InitFields ==
    /\ projects = RunStore(1).projects
    /\ projectSeq = RunStore(1).projectSeq
    /\ photos = RunStore(1).photos
    /\ photoSeq = RunStore(1).photoSeq
    /\ disk = RunStore(1).disk
    /\ dirs = RunStore(1).dirs
    /\ up = NoUpload
    /\ upEvents = <<>>
    /\ run = NoRun
    /\ bat = NoBatch
    /\ anEvents = <<>>
    /\ part = NoPart
    /\ calc = NoCalc
    /\ tasks = NoTasks
    /\ win = OneWindow

\* One file per request: the first two of SourceFiles by content
FieldFiles == {f \in SourceFiles : f.readable /\ f.name.ext = "jpg"}

\* The service evaluates photos 1 to 4, or proposes them as one group, or fails
FieldScoreOutcomes ==
    {[kind |-> "err"],
     [kind |-> "text",
      text |-> Text("none", FALSE,
                    Body("list", [k \in 1..4 |->
                                     [photo_id |-> k, score |-> 855, comment |-> "c"]]))]}
FieldGroupOutcomes ==
    {[kind |-> "err"],
     [kind |-> "text",
      text |-> Text("none", FALSE, Body("list", <<[photo_ids |-> <<1, 2, 3, 4>>]>>))]}

NextFields ==
    \/ \E projectId \in 1..MaxProjects, f \in FieldFiles : PhotosUpload(projectId, <<f>>)
    \/ UploadNext("thumb")
    \/ UploadReturn
    \/ \E id \in 1..2, selected \in BOOLEAN : PhotosUpdateSelection(<<id, id + 2>>, selected)
    \/ \E projectId \in 1..MaxProjects : AnalyzePhotos(projectId, TRUE)
    \/ \E outcome \in FieldScoreOutcomes : AnalyzeBatch(outcome)
    \/ AnalyzeReturn
    \/ \E projectId \in 1..MaxProjects : GroupSimilar(projectId, TRUE)
    \/ \E outcome \in FieldGroupOutcomes : GroupBatch(outcome)
    \/ GroupReturn
    \/ \E projectId \in 1..MaxProjects : GroupClear(projectId)

SpecFields == InitFields /\ [][NextFields]_vars

----------------------------------------------------------------------------
(* PHOTOS_EXPORT and PhotoManager.exportSelected *)

MaxExportPhotos == 3

\* Extensions that sharp cannot convert (RAW and HEIC), without their dot
SPECIAL_EXTENSIONS ==
    {"cr2", "cr3", "nef", "arw", "orf", "rw2", "dng", "raf", "raw", "srw", "pef",
     "heic", "heif"}

\* String(exportIndex).padStart(2, '0')
PadStart2(exportIndex) ==
    <<"01", "02", "03", "04", "05", "06", "07", "08", "09", "10", "11", "12">>[exportIndex]

\* `${sanitizedName}_${String(exportIndex).padStart(2, '0')}.jpg`: the characters
\* of the sanitized name, then the number
ExportFilename(sanitizedName, exportIndex) ==
    FileName(Append(sanitizedName, PadStart2(exportIndex)), "jpg")

\* ORDER BY score DESC, id: a is before b. A null score is the smallest value
Before(P, a, b) ==
    IF P[a].score = P[b].score THEN a < b
    ELSE IF P[a].score = NULL THEN FALSE
    ELSE IF P[b].score = NULL THEN TRUE
    ELSE P[a].score[1] > P[b].score[1]

\* SELECT * FROM photos WHERE project_id = ? AND selected = 1 ORDER BY score DESC, id
SelectedPhotos(S, projectId) ==
    LET ids == {id \in DOMAIN S.photos : /\ S.photos[id].project_id = projectId
                                          /\ S.photos[id].selected}
    IN  [k \in 1..Cardinality(ids) |->
            CHOOSE id \in ids :
                Cardinality({x \in ids : Before(S.photos, x, id)}) = k - 1]

\* fs.mkdir(exportsPath, { recursive: true }), then the unlink of every .jpg in it
ClearExports(S, dir) ==
    [S EXCEPT !.dirs = @ \cup {dir},
              !.disk = Drop(@, {p \in DOMAIN @ : /\ p.dir = dir /\ p.sub = "exports"
                                                 /\ p.name.ext = "jpg"})]

\* NextExportIndex that counts the photos that failed as well
NextExportIndexAlways(exportIndex, converted) == exportIndex + 1

\* exportIndex++ after sharp(...).toFile(exportPath) has resolved
NextExportIndex(exportIndex, converted) ==
    IF converted THEN exportIndex + 1 ELSE exportIndex

\* The loop of exportSelected over the photos from the k-th on; converts[k] is
\* what sharp does with the k-th photo when its original is there
RECURSIVE ExportLoop(_, _, _, _, _, _, _)
ExportLoop(S, dir, list, converts, k, exportIndex, result) ==
    IF k > Len(list) THEN [store |-> S, exported |-> result.exported,
                           skipped |-> result.skipped]
    ELSE
    LET photo == S.photos[list[k]]
        exportPath == Path(dir, "exports", ExportFilename(dir, exportIndex))
        converted == converts[k] = "ok" /\ existsSync(S, photo.original_path)
    IN  IF photo.original_filename.ext \in SPECIAL_EXTENSIONS
        THEN ExportLoop(S, dir, list, converts, k + 1, exportIndex,
                        [result EXCEPT !.skipped = @ + 1])
        ELSE IF converted
        THEN ExportLoop([S EXCEPT !.disk = Put(@, exportPath,
                                               [kind |-> "export", of |-> photo.file_hash])],
                        dir, list, converts, k + 1,
                        NextExportIndex(exportIndex, converted),
                        [result EXCEPT !.exported = Append(@, exportPath)])
        ELSE ExportLoop(S, dir, list, converts, k + 1,
                        NextExportIndex(exportIndex, converted),
                        [result EXCEPT !.skipped = @ + 1])

\* PhotoManager.exportSelected(project): [store, exported, skipped]
exportSelected(S, projectId, converts) ==
    LET dir == getProjectPath(S.projects[projectId].name)
    IN  ExportLoop(ClearExports(S, dir), dir, SelectedPhotos(S, projectId), converts,
                   1, 1, [exported |-> <<>>, skipped |-> 0])

\* PHOTOS_EXPORT
PhotosExport(projectId, converts) ==
    /\ UNCHANGED <<part, tasks, win>>
    /\ Idle
    /\ IF FindProject(Store, projectId) = {}
       THEN /\ calc' = [op |-> "PHOTOS_EXPORT", input |-> projectId, done |-> TRUE,
                        output |-> [threw |-> TRUE, count |-> 0, skipped |-> 0,
                                    exportPath |-> <<>>]]
            /\ UNCHANGED storeVars
       ELSE LET result == exportSelected(Store, projectId, converts)
            IN  /\ SetStore(result.store)
                /\ calc' = [op |-> "PHOTOS_EXPORT", input |-> projectId, done |-> TRUE,
                            output |-> [threw |-> FALSE, count |-> Len(result.exported),
                                        skipped |-> result.skipped,
                                        exportPath |->
                                            getProjectPath(projects[projectId].name)]]
    /\ UNCHANGED <<uploadVars, runVars>>

\* The k-th file of the project: a.jpg, b.heic, then c_3.png, c_4.png, ...
ExportFile(k) ==
    [name |-> IF k = 1 THEN FileName(<<"a">>, "jpg")
              ELSE IF k = 2 THEN FileName(<<"b">>, "heic")
              ELSE FileName(<<"c", CounterStr(k)>>, "png"),
     hash |-> HashStr(k), readable |-> TRUE]

\* Project 1 ("t/") after the first n files are uploaded to it
RECURSIVE ExportStore(_)
ExportStore(n) ==
    IF n = 0 THEN createProject(EmptyStore, <<"t", "/">>)
    ELSE processUpload(ExportStore(n - 1), 1, ExportFile(n), "thumb").store

\* The scores a photo may have got: none, 5.0 or 8.6
ExportScores == {NULL, Some(50), Some(86)}

InitExport ==
    /\ projects = ExportStore(MaxExportPhotos).projects
    /\ projectSeq = ExportStore(MaxExportPhotos).projectSeq
    /\ \E scores \in [1..MaxExportPhotos -> ExportScores] :
          photos = [id \in 1..MaxExportPhotos |->
                       [ExportStore(MaxExportPhotos).photos[id] EXCEPT !.score = scores[id]]]
    /\ photoSeq = ExportStore(MaxExportPhotos).photoSeq
    /\ disk = ExportStore(MaxExportPhotos).disk
    /\ dirs = ExportStore(MaxExportPhotos).dirs
    /\ up = NoUpload
    /\ upEvents = <<>>
    /\ run = NoRun
    /\ bat = NoBatch
    /\ anEvents = <<>>
    /\ part = NoPart
    /\ calc = NoCalc
    /\ tasks = NoTasks
    /\ win = OneWindow

NextExport ==
    \/ \E id \in 1..MaxExportPhotos, selected \in BOOLEAN :
          PhotosUpdateSelection(<<id>>, selected)
    \/ \E projectId \in ProjectIds, converts \in [1..MaxExportPhotos -> {"ok", "fail"}] :
          PhotosExport(projectId, converts)

SpecExport == InitExport /\ [][NextExport]_vars

----------------------------------------------------------------------------
(* Runs of more than one batch: project 1 holds one photo more than a scoring  *)
(* batch, or one or two photos more than a grouping batch                      *)

MultiPhotoCounts == {BATCH_SIZE + 1, GROUPING_BATCH_SIZE + 1, GROUPING_BATCH_SIZE + 2}

\* The names of projects 1 and 2 of RunStore
RunProjectNames == << <<"u">>, <<"t", "/">> >>

\* The row processUpload inserts for RunFile(k) in the project (the names of the
\* files are all different, so none gets a suffix)
BulkRow(projectId, k) ==
    [project_id |-> projectId,
     original_filename |-> RunFile(k).name,
     original_path |->
         Path(getProjectPath(RunProjectNames[projectId]), "originals", RunFile(k).name),
     thumbnail_path |->
         Path(getProjectPath(RunProjectNames[projectId]), "thumbnails",
              ThumbnailName(RunFile(k).name)),
     file_hash |-> RunFile(k).hash,
     score |-> NULL,
     ai_comment |-> NULL,
     selected |-> FALSE,
     similarity_group_id |-> NULL]

\* The project of photo k when project 1 holds n photos
BulkProject(n, k) == IF k <= n THEN 1 ELSE 2

\* The files of photo k: its original, and its thumbnail unless a later photo of
\* the same thumbnail path has overwritten it
BulkFiles(n, k) ==
    LET row == BulkRow(BulkProject(n, k), k)
    IN  {[path |-> row.original_path, file |-> [kind |-> "original", of |-> row.file_hash]]}
        \cup IF \E j \in (k + 1)..(n + 1) :
                    BulkRow(BulkProject(n, j), j).thumbnail_path = row.thumbnail_path
             THEN {}
             ELSE {[path |-> row.thumbnail_path,
                    file |-> [kind |-> "thumb", of |-> row.file_hash]]}

\* RunStore(n) written out row by row and file by file: photo k comes from
\* RunFile(k), photos 1..n are in project 1 and photo n + 1 is in project 2
BulkStore(n) ==
    [projects |-> RunStore(0).projects,
     projectSeq |-> RunStore(0).projectSeq,
     photos |-> [k \in 1..(n + 1) |-> BulkRow(BulkProject(n, k), k)],
     photoSeq |-> n + 1,
     disk |-> [path \in {f.path : f \in UNION {BulkFiles(n, k) : k \in 1..(n + 1)}} |->
                 (CHOOSE f \in UNION {BulkFiles(n, k) : k \in 1..(n + 1)} :
                      f.path = path).file],
     dirs |-> RunStore(0).dirs]

InitMulti ==
    /\ \E n \in MultiPhotoCounts :
          /\ projects = BulkStore(n).projects
          /\ projectSeq = BulkStore(n).projectSeq
          /\ photos = BulkStore(n).photos
          /\ photoSeq = BulkStore(n).photoSeq
          /\ disk = BulkStore(n).disk
          /\ dirs = BulkStore(n).dirs
    /\ up = NoUpload
    /\ upEvents = <<>>
    /\ run = NoRun
    /\ bat = NoBatch
    /\ anEvents = <<>>
    /\ part = NoPart
    /\ calc = NoCalc
    /\ tasks = NoTasks
    /\ win = OneWindow

\* The responses to a scoring request: at most one evaluation, for the first photo
\* of the project or for the first photo past a batch of 10
MultiEvaluations == [photo_id : {1, BATCH_SIZE + 1}, score : {855}, comment : Comments]
MultiScoreBodies ==
    {Body("list", <<e>>) : e \in MultiEvaluations}
    \cup {Body("list", <<>>), Body("nolist", <<>>)}
MultiScoreOutcomes ==
    {[kind |-> "429"], [kind |-> "err"]}
    \cup {[kind |-> "text", text |-> Text("none", FALSE, body)] : body \in MultiScoreBodies}

\* The responses to a grouping request: at most one proposal, of the first two
\* photos of the project or of the first two photos past a batch of 20
MultiProposals ==
    {[photo_ids |-> <<1, 2>>],
     [photo_ids |-> <<GROUPING_BATCH_SIZE + 1, GROUPING_BATCH_SIZE + 2>>]}
MultiGroupBodies ==
    {Body("list", <<p>>) : p \in MultiProposals}
    \cup {Body("list", <<>>), Body("nolist", <<>>)}
MultiGroupOutcomes ==
    {[kind |-> "429"], [kind |-> "err"], [kind |-> "nocall"]}
    \cup {[kind |-> "text", text |-> Text("none", FALSE, body)] : body \in MultiGroupBodies}

\* A step of the run in flight: a service call settles, or the loop is over
RunStep ==
    \/ \E outcome \in MultiScoreOutcomes : AnalyzeBatch(outcome)
    \/ AnalyzeReturn
    \/ \E outcome \in MultiGroupOutcomes : GroupBatch(outcome)
    \/ GroupReturn

NextMulti ==
    \/ \E projectId \in 1..MaxProjects : AnalyzePhotos(projectId, TRUE)
    \/ \E projectId \in 1..MaxProjects : GroupSimilar(projectId, TRUE)
    \/ RunStep

SpecMulti == InitMulti /\ [][NextMulti]_vars

\* Every service call returns or fails, and the handler goes on when it does
SpecMultiLive == SpecMulti /\ WF_vars(RunStep)

----------------------------------------------------------------------------
(* The batch loop of analyzePhotos and groupPhotos on its own:                *)
(*   for (let i = 0; i < photos.length; i += BATCH_SIZE)                      *)
(*     batch = photos.slice(i, i + BATCH_SIZE)                                *)

MaxListLen == 41

\* The batch sizes of the two services
BatchSizes == {BATCH_SIZE, GROUPING_BATCH_SIZE}

\* n photos ordered by id, their ids `gap` apart
IdList(n, gap) == [k \in 1..n |-> gap * k]

InitPart ==
    /\ projects = <<>>
    /\ projectSeq = 0
    /\ photos = <<>>
    /\ photoSeq = 0
    /\ disk = <<>>
    /\ dirs = {}
    /\ up = NoUpload
    /\ upEvents = <<>>
    /\ run = NoRun
    /\ bat = NoBatch
    /\ anEvents = <<>>
    /\ \E n \in 0..MaxListLen, gap \in 1..2, size \in BatchSizes :
          part = [list |-> IdList(n, gap), size |-> size, i |-> 0, batches |-> <<>>]
    /\ calc = NoCalc
    /\ tasks = NoTasks
    /\ win = OneWindow

\* One iteration of the loop
LoopBatch ==
    /\ part.i < Len(part.list)
    /\ part' = [part EXCEPT !.batches = Append(@, slice(part.list, part.i, part.size)),
                            !.i = @ + part.size]
    /\ UNCHANGED <<storeVars, uploadVars, runVars, calc, tasks, win>>

NextPart == LoopBatch

SpecPart == InitPart /\ [][NextPart]_vars

----------------------------------------------------------------------------
(* A function of the program applied to one argument *)

\* The state before the function `op` is applied to one of `inputs`
InitCalc(op, inputs) ==
    /\ projects = <<>>
    /\ projectSeq = 0
    /\ photos = <<>>
    /\ photoSeq = 0
    /\ disk = <<>>
    /\ dirs = {}
    /\ up = NoUpload
    /\ upEvents = <<>>
    /\ run = NoRun
    /\ bat = NoBatch
    /\ anEvents = <<>>
    /\ part = NoPart
    /\ \E x \in inputs : calc = [op |-> op, input |-> x, output |-> <<>>, done |-> FALSE]
    /\ tasks = NoTasks
    /\ win = OneWindow

\* The function has returned `value`
Return(value) ==
    /\ ~calc.done
    /\ calc' = [calc EXCEPT !.output = value, !.done = TRUE]
    /\ UNCHANGED <<storeVars, uploadVars, runVars, part, tasks, win>>

----------------------------------------------------------------------------
(* parseResponse on the characters of the text. A text is a sequence of these  *)
(* pieces: a fence of three backticks ("fence"), the word json, a whitespace character,  *)
(* any other character outside JSON ("x"), and the two halves of a JSON        *)
(* document around one string value: "{" is all of the document up to the      *)
(* opening quote of the string, "}" all of it from the closing quote on. The   *)
(* string may hold fences, the word json, whitespace and other characters.     *)

MaxTextLen == 5

Pieces == {"fence", "json", " ", "x", "{", "}"}
StringPieces == {"fence", "json", " ", "x"}

\* text.trim()
trim(text) == TrimRight(TrimLeft(text))

\* text.match(/```(?:json)?\s*([\s\S]*?)\s*```/): NULL, or the captured group. The
\* match starts at the first fence that has a fence after it; json and whitespace
\* are passed greedily; the lazy group ends before the whitespace in front of the
\* next fence
MatchFence(text) ==
    LET fences == {i \in 1..Len(text) : text[i] = "fence"}
    IN  IF Cardinality(fences) < 2 THEN NULL
        ELSE
        LET open == CHOOSE i \in fences : \A j \in fences : i <= j
            afterTag == IF text[open + 1] = "json" THEN open + 2 ELSE open + 1
            start == CHOOSE i \in afterTag..Len(text) :
                        /\ text[i] # " "
                        /\ \A j \in afterTag..(i - 1) : text[j] = " "
            close == CHOOSE i \in fences : i >= start /\ \A j \in fences : j >= start => i <= j
        IN  Some(TrimRight(SubSeq(text, start, close - 1)))

\* JSON.parse(jsonStr): it throws unless the string is one JSON document, with
\* whitespace around it at most; the value is the document's list, one item
\* that carries the string
JSONparse(jsonStr) ==
    LET t == trim(jsonStr)
        n == Len(t)
    IN  IF /\ n >= 2 /\ t[1] = "{" /\ t[n] = "}"
           /\ \A i \in 2..(n - 1) : t[i] \in StringPieces
        THEN [threw |-> FALSE, items |-> <<[comment |-> SubSeq(t, 2, n - 1)]>>]
        ELSE [threw |-> TRUE, items |-> <<>>]

\* parseResponse(text) of both services: the list of the parsed document, or the
\* empty list when JSON.parse throws
parseResponseText(text) ==
    LET jsonMatch == MatchFence(text)
        jsonStr == IF jsonMatch # NULL THEN jsonMatch[1] ELSE trim(text)
        parsed == JSONparse(jsonStr)
    IN  IF parsed.threw THEN <<>> ELSE parsed.items

\* The texts of a response: up to MaxTextLen pieces
ParseInputs == SeqsUpTo(Pieces, MaxTextLen)

InitParse == InitCalc("parseResponse", ParseInputs)

\* const parsed = this.parseResponse(textContent.text)
ParseResponse == calc.op = "parseResponse" /\ Return(parseResponseText(calc.input))

NextParse == ParseResponse

SpecParse == InitParse /\ [][NextParse]_vars

----------------------------------------------------------------------------
(* getGroupedPhotos of the project view: the best photo of each group and the *)
(* ungrouped photos. Scores are in tenths.                                     *)

MaxViewPhotos == 3

\* a.score ?? -1
ScoreOrMinusOne(photo) == IF photo.score = NULL THEN -10 ELSE photo.score[1]

\* group.reduce((a, b) => (a.score ?? -1) > (b.score ?? -1) ? a : b), from a on
RECURSIVE ReduceBest(_, _)
ReduceBest(a, rest) ==
    IF rest = <<>> THEN a
    ELSE ReduceBest(IF ScoreOrMinusOne(a) > ScoreOrMinusOne(Head(rest)) THEN a
                    ELSE Head(rest),
                    Tail(rest))

\* The group ids of the list in the order the Map got them: by first photo
GroupKeys(list) ==
    LET firsts == {i \in 1..Len(list) :
                      /\ list[i].similarity_group_id # NULL
                      /\ \A j \in 1..(i - 1) :
                            list[j].similarity_group_id # list[i].similarity_group_id}
    IN  [k \in 1..Cardinality(firsts) |->
            list[CHOOSE i \in firsts : Cardinality({j \in firsts : j < i}) = k - 1]
                .similarity_group_id]

\* list.sort((a, b) => (b.score ?? -1) - (a.score ?? -1)): stable, by score descending
SortByScore(list) ==
    LET before(i, j) ==
            \/ ScoreOrMinusOne(list[i]) > ScoreOrMinusOne(list[j])
            \/ ScoreOrMinusOne(list[i]) = ScoreOrMinusOne(list[j]) /\ i < j
    IN  [k \in 1..Len(list) |->
            list[CHOOSE i \in 1..Len(list) :
                    Cardinality({j \in 1..Len(list) : before(j, i)}) = k - 1]]

\* getGroupedPhotos(photos)
getGroupedPhotos(list) ==
    LET grouped(g) == SelectSeq(list, LAMBDA p : p.similarity_group_id = g)
        ungrouped == SelectSeq(list, LAMBDA p : p.similarity_group_id = NULL)
        keys == GroupKeys(list)
        bestFromGroups == [k \in 1..Len(keys) |->
                              ReduceBest(Head(grouped(keys[k])), Tail(grouped(keys[k])))]
    IN  SortByScore(bestFromGroups \o ungrouped)

\* The scores and group ids a photo of the store may hold: no score, -2.0, 5.0 or
\* 8.6; no group, group 1 or group 2
ViewScores == {NULL, Some(-20), Some(50), Some(86)}
ViewGroups == {NULL, Some(1), Some(2)}

\* The photos of a project as PHOTOS_LIST returns them, ORDER BY score DESC (a
\* null score last), numbered 1..n in the order of the list
ViewInputs ==
    UNION {{[id \in 1..n |-> [id |-> id, score |-> scores[id],
                              similarity_group_id |-> groups[id]]] :
               scores \in {sc \in [1..n -> ViewScores] :
                              \A i, j \in 1..n :
                                  i < j => /\ sc[i] = NULL => sc[j] = NULL
                                           /\ sc[j] # NULL => sc[i][1] >= sc[j][1]},
               groups \in [1..n -> ViewGroups]} :
           n \in 0..MaxViewPhotos}

InitView == InitCalc("getGroupedPhotos", ViewInputs)

\* viewMode === 'grouped' ? getGroupedPhotos(filteredByScore) : filteredByScore
GroupedView == calc.op = "getGroupedPhotos" /\ Return(getGroupedPhotos(calc.input))

NextView == GroupedView

SpecView == InitView /\ [][NextView]_vars

----------------------------------------------------------------------------
(* The cost estimator *)

MaxEstimatePhotos == 60

\* Cost of a million tokens, in dollars
INPUT_COST_PER_MILLION == 3
OUTPUT_COST_PER_MILLION == 15

TOKENS_PER_THUMBNAIL == 1500
TOKENS_PER_PHOTO_PROMPT == 50
TOKENS_PER_BATCH_PROMPT == 250
OUTPUT_TOKENS_PER_PHOTO == 100

\* BATCH_SIZE of the estimator's file
ESTIMATE_BATCH_SIZE == 10

\* BatchCount rounding down
BatchCountFloor(photoCount) == photoCount \div ESTIMATE_BATCH_SIZE

\* Math.ceil(photoCount / BATCH_SIZE)
BatchCount(photoCount) == (photoCount + ESTIMATE_BATCH_SIZE - 1) \div ESTIMATE_BATCH_SIZE

\* totalCost.toFixed(2), in cents, of a cost in millionths of a dollar
ToFixed2(micro) == (micro + 5000) \div 10000

\* CostEstimator.estimate(photos). Costs are in millionths of a dollar:
\* (tokens / 1_000_000) * cost per million = tokens * cost per million / 10^6
estimate(list) ==
    LET photoCount == Len(list)
    IN  IF photoCount = 0
        THEN [photoCount |-> 0, batchCount |-> 0, estimatedInputTokens |-> 0,
              estimatedOutputTokens |-> 0, estimatedCost |-> 0, formattedCost |-> 0]
        ELSE
        LET batchCount == BatchCount(photoCount)
            imageTokens == photoCount * TOKENS_PER_THUMBNAIL
            promptTokens == photoCount * TOKENS_PER_PHOTO_PROMPT
                               + batchCount * TOKENS_PER_BATCH_PROMPT
            totalInputTokens == imageTokens + promptTokens
            totalOutputTokens == photoCount * OUTPUT_TOKENS_PER_PHOTO
            inputCost == totalInputTokens * INPUT_COST_PER_MILLION
            outputCost == totalOutputTokens * OUTPUT_COST_PER_MILLION
            totalCost == inputCost + outputCost
        IN  [photoCount |-> photoCount, batchCount |-> batchCount,
             estimatedInputTokens |-> totalInputTokens,
             estimatedOutputTokens |-> totalOutputTokens,
             estimatedCost |-> totalCost, formattedCost |-> ToFixed2(totalCost)]

\* The photo lists the estimator is given: 0 to MaxEstimatePhotos photos
EstimateInputs == {IdList(n, 1) : n \in 0..MaxEstimatePhotos}

InitEstimate == InitCalc("estimate", EstimateInputs)

\* ESTIMATE_COST: estimator.estimate(photos)
Estimate == calc.op = "estimate" /\ Return(estimate(calc.input))

NextEstimate == Estimate

SpecEstimate == InitEstimate /\ [][NextEstimate]_vars

----------------------------------------------------------------------------
(* The store handlers alone *)

Init ==
    /\ projects = <<>>
    /\ projectSeq = 0
    /\ photos = <<>>
    /\ photoSeq = 0
    /\ disk = <<>>
    /\ dirs = {}
    /\ up = NoUpload
    /\ upEvents = <<>>
    /\ run = NoRun
    /\ bat = NoBatch
    /\ anEvents = <<>>
    /\ part = NoPart
    /\ calc = NoCalc
    /\ tasks = NoTasks
    /\ win = OneWindow

Next ==
    \/ \E name \in ProjectNames : ProjectCreate(name)
    \/ \E id \in 1..MaxProjects : ProjectDelete(id)
    \/ \E id \in 1..MaxPhotoId : PhotosDelete(id)
    \/ \E projectId \in 1..MaxProjects, filePaths \in SeqsUpTo(SourceFiles, MaxFiles) :
          PhotosUpload(projectId, filePaths)
    \/ \E thumb \in ThumbOutcomes : UploadFile(thumb)
    \/ UploadReturn

Spec == Init /\ [][Next]_vars

----------------------------------------------------------------------------
(* Properties *)

PhotosOf(projectId) == {id \in DOMAIN photos : photos[id].project_id = projectId}

\* The step is one iteration of the upload loop
UploadStep == up.pc = "loop" /\ up.filePaths # <<>> /\ up' # up

UniqueHash ==
    \A p, q \in DOMAIN photos :
        (photos[p].project_id = photos[q].project_id
            /\ photos[p].file_hash = photos[q].file_hash) => p = q

\* C1: no two photos of a project share a file hash; an upload of bytes whose
\* hash the project already holds counts a duplicate and leaves the photos table
\* as it is, whatever the file is called; bytes the project does not hold yet
\* (also when another project holds them) make exactly one new row, in the project.
C1_DedupByContent ==
    [][/\ UniqueHash'
       /\ (UploadStep /\ Head(up.filePaths).readable) =>
            LET src == Head(up.filePaths)
                held == \E id \in PhotosOf(up.projectId) : photos[id].file_hash = src.hash
            IN  IF held
                THEN /\ photos' = photos
                     /\ up'.duplicates = up.duplicates + 1
                     /\ up'.uploaded = up.uploaded
                ELSE /\ up'.uploaded = up.uploaded + 1
                     /\ up'.duplicates = up.duplicates
                     /\ \E id \in DOMAIN photos' \ DOMAIN photos :
                           /\ DOMAIN photos' = DOMAIN photos \cup {id}
                           /\ photos'[id].project_id = up.projectId
                           /\ photos'[id].file_hash = src.hash
                           /\ \A q \in DOMAIN photos : photos'[q] = photos[q]]_vars

\* C1 witness: a request of one file ended as a duplicate of the only photo of its
\* project, under another file name, while another project holds the same bytes
C1_Witness ==
    /\ up.pc = "returned" /\ up.total = 1 /\ up.duplicates = 1
    /\ \E p, q \in DOMAIN photos :
          /\ PhotosOf(up.projectId) = {p}
          /\ photos[q].project_id # up.projectId
          /\ photos[q].file_hash = photos[p].file_hash
          /\ upEvents[1].filename # photos[p].original_filename

\* C2: the thumbnail path of every photo names a file that exists
C2_ThumbnailExists ==
    \A id \in DOMAIN photos : photos[id].thumbnail_path \in DOMAIN disk

\* In photos table P, the group ids of the project are each held by at least 2 of
\* its photos
NoSingletonGroup(P, projectId) ==
    LET members == {id \in DOMAIN P : P[id].project_id = projectId}
    IN  \A id \in members :
            P[id].similarity_group_id # NULL =>
                \E other \in members \ {id} :
                    P[other].similarity_group_id = P[id].similarity_group_id

\* C3: when a grouping run returns, every group id of its project is held by at
\* least 2 photos of the project
C3_NoSingletonGroup ==
    [][(run' # run /\ run'.kind = "group" /\ run'.pc = "returned")
          => NoSingletonGroup(photos', run'.projectId)]_vars

\* C4: every score is null or within 0.0 .. 10.0 (0 .. 100 tenths)
C4_ScoreInRange ==
    \A id \in DOMAIN photos :
        photos[id].score = NULL \/ (0 <= photos[id].score[1] /\ photos[id].score[1] <= 100)

\* C5: a step changes the score or the comment of a photo only when it is a call
\* of the scoring batch that holds the photo; an evaluation that names any other
\* photo changes no row
C5_OnlyBatchMembers ==
    [][\A id \in DOMAIN photos \cap DOMAIN photos' :
          (photos'[id].score # photos[id].score
              \/ photos'[id].ai_comment # photos[id].ai_comment)
          => /\ run.kind = "score" /\ run.pc = "loop"
             /\ id \in Range(slice(run.photos, run.i, BATCH_SIZE))
             /\ bat'.status = "ok" /\ id \in Range(bat'.ids)]_vars

\* C5 witness: a batch was answered with an evaluation for a photo of the store
\* outside the batch and with one for a photo of the batch; the former photo is
\* unscored still, the latter is scored
C5_Witness ==
    /\ run.kind = "score" /\ bat.status = "ok"
    /\ \E id \in bat.ignored \cap DOMAIN photos : photos[id].score = NULL
    /\ \E id \in Range(bat.ids) \cap DOMAIN photos : photos[id].score # NULL

\* k times the element x
Repeat(x, k) == [j \in 1..k |-> x]

\* C6: the waits of a batch are 5 s, 10 s, ... in this order, one after each
\* rate-limit answer that is retried; k rate-limit answers and then a response
\* (k <= 3) end the batch resolved after k + 1 calls and k waits; rate-limit
\* answers alone end it rejected at the 4th call, after 3 waits
C6_RetryGovernor ==
    LET n == Len(bat.outcomes)
        k == Len(bat.waits)
    IN  /\ \A j \in 1..k : bat.waits[j] = j * 5000 /\ bat.outcomes[j] = "429"
        /\ n <= 4 /\ k <= 3
        /\ (n > 0 /\ bat.outcomes[n] = "ok") =>
              /\ bat.status = "ok"
              /\ bat.outcomes = Append(Repeat("429", n - 1), "ok")
              /\ k = n - 1
        /\ (n > 0 /\ bat.outcomes = Repeat("429", n)) =>
              IF n = 4 THEN bat.status = "failed" /\ k = 3
                       ELSE bat.status = "running" /\ k = n /\ run.retryCount = n

\* C6 witness: a grouping batch resolved at its 4th call, after waits of 5, 10, 15 s
C6_Witness ==
    /\ run.kind = "group"
    /\ bat.outcomes = <<"429", "429", "429", "ok">>
    /\ bat.waits = <<5000, 10000, 15000>>
    /\ bat.status = "ok"

\* C7: an error that is no rate-limit signal is the last call of its batch: the
\* batch is rejected at once, with a wait after each earlier call and none after it
C7_OtherErrorsNotRetried ==
    \A j \in 1..Len(bat.outcomes) :
        bat.outcomes[j] = "err" =>
            /\ j = Len(bat.outcomes)
            /\ bat.status = "failed"
            /\ Len(bat.waits) = j - 1
            /\ run.retryCount = 0

\* C7 witness: a scoring batch rejected by an error that followed two rate-limit retries
C7_Witness ==
    /\ run.kind = "score"
    /\ bat.outcomes = <<"429", "429", "err">>
    /\ bat.waits = <<5000, 10000>>
    /\ bat.status = "failed"

RECURSIVE Concat(_)
Concat(seqs) == IF seqs = <<>> THEN <<>> ELSE Head(seqs) \o Concat(Tail(seqs))

\* C8: the slices made so far are consecutive and disjoint, each of the batch size
\* but possibly the last, and concatenate to the part of the list the loop has
\* passed; when the loop ends there are ceil(N/B) of them and they concatenate to
\* the list
C8_Partition ==
    LET n == Len(part.list)
        B == part.size
        k == Len(part.batches)
    IN  /\ Concat(part.batches) = SubSeq(part.list, 1, Min(part.i, n))
        /\ \A j \in 1..k : Len(part.batches[j]) >= 1 /\ Len(part.batches[j]) <= B
        /\ \A j \in 1..(k - 1) : Len(part.batches[j]) = B
        /\ \A j1, j2 \in 1..k :
              j1 # j2 => Range(part.batches[j1]) \cap Range(part.batches[j2]) = {}
        /\ part.i >= n =>
              /\ k = (n + B - 1) \div B
              /\ Concat(part.batches) = part.list

\* C8 witness: 25 photos in batches of 10 are 3 slices, the last of 5
C8_Witness ==
    /\ Len(part.list) = 25 /\ part.size = 10 /\ part.i >= 25
    /\ Len(part.batches) = 3 /\ Len(part.batches[3]) = 5

\* C9: from the first statement of a grouping run on, every group id held by a
\* photo of the project was assigned by this run (no photo of the project holds a
\* group id before the first batch is answered); also in a run that returns at
\* once for fewer than 2 photos and in a run whose batches all fail
C9_NoStaleGroup ==
    (run.kind = "group" /\ run.pc \in {"loop", "returned"}) =>
        /\ \A id \in PhotosOf(run.projectId) :
              photos[id].similarity_group_id # NULL => id \notin run.stale
        /\ bat.status = "none" =>
              \A id \in PhotosOf(run.projectId) : photos[id].similarity_group_id = NULL

\* C9 witness: a run whose only batch failed has returned, in a project where a
\* photo held a group id of an earlier run
C9_Witness ==
    /\ run.kind = "group" /\ run.pc = "returned" /\ bat.status = "failed"
    /\ run.stale \cap PhotosOf(run.projectId) # {}

\* C10: an upload request that found its project ends by returning its result,
\* with every file of the list passed through the loop
C10_ReadFailureIsPerFile ==
    (up.pc \in {"returned", "threw"} /\ up.error # "Project not found") =>
        up.pc = "returned" /\ up.filePaths = <<>>

\* C11: a request over n files that found its project sends one event per file,
\* with current = 1, 2, ..., n in order and total = n; while the loop runs, the
\* events sent are those of the files it is done with (the event of file i is sent
\* before the pipeline of file i + 1 starts); when the request ends, whatever the
\* outcome of each file, n events have been sent
C11_ProgressPerFile ==
    /\ \A k \in 1..Len(upEvents) :
          upEvents[k].current = k /\ upEvents[k].total = up.total
    /\ up.pc = "loop" =>
          Len(upEvents) = up.i /\ up.i + Len(up.filePaths) = up.total
    /\ (up.pc \in {"returned", "threw"} /\ up.error # "Project not found") =>
          Len(upEvents) = up.total

\* The photos selected by the run that hold a score in photos table P
ScoredOf(P, r) == {id \in Range(r.photos) \cap DOMAIN P : P[id].score # NULL}

\* C12: the value a scoring run returns is the number of the photos it selected
\* (all unscored when it started) that hold a score when it returns
C12_ReturnsScoredCount ==
    [][(run' # run /\ run'.kind = "score" /\ run'.pc = "returned")
          => run'.result = Cardinality(ScoredOf(photos', run'))]_vars

\* The step is a service call that resolved with a text carrying no payload: no
\* JSON, an empty list, or JSON without the list (the lists of RetryBodies are empty)
NoPayloadStep ==
    /\ bat' # bat
    /\ Len(bat'.outcomes) = Len(bat.outcomes) + 1 \/ Len(bat'.outcomes) = 1
    /\ bat'.outcomes[Len(bat'.outcomes)] \in {"ok", "nolist"}

\* C13: a text that is no JSON parses to the empty list without raising, in both
\* services; a call that resolves with a text carrying no payload (no JSON, or
\* JSON without the list) ends its batch as resolved, not failed, with no wait, no
\* retry and no photo row written
C13_NoPayloadIsZeroResults ==
    [][/\ \A text \in Texts(RetryBodies) :
              JsonStr(text).kind = "garbage" =>
                  /\ parseResponse(text) = Body("list", <<>>)
                  /\ parseGroupResponse(text) = Body("list", <<>>)
       /\ NoPayloadStep =>
              /\ bat'.status = "ok"
              /\ Len(bat'.waits) = Len(bat'.outcomes) - 1
              /\ run'.retryCount = 0
              /\ run'.statuses = Append(run.statuses, "ok")
              /\ photos' = photos]_vars

\* The batch size of the run and the number of batches of its list
SizeOf(r) == IF r.kind = "score" THEN BATCH_SIZE ELSE GROUPING_BATCH_SIZE
BatchesOf(r) == (Len(r.photos) + SizeOf(r) - 1) \div SizeOf(r)

\* C14: a batch that fails leaves the run in its loop, at the next batch, with the
\* photos table as the earlier batches left it; the loop ends only by returning,
\* after it has passed every batch of the list, and each batch it passed was
\* called at least once unless it is a grouping batch of a single photo
C14_FailedBatchIsSkipped ==
    [][/\ run'.statuses = Append(run.statuses, "failed") =>
              /\ run'.pc = "loop"
              /\ run'.i = run.i + SizeOf(run)
              /\ run'.retryCount = 0
              /\ photos' = photos
       /\ (run.pc = "loop" /\ run'.pc # "loop") =>
              /\ run'.pc = "returned"
              /\ Len(run.statuses) = BatchesOf(run)
              /\ \A j \in 1..Len(run.statuses) :
                    run.statuses[j] = "skipped" =>
                        Len(slice(run.photos, (j - 1) * SizeOf(run), SizeOf(run))) < 2
              /\ run.calls >= Cardinality({j \in 1..Len(run.statuses) :
                                               run.statuses[j] # "skipped"})]_vars

\* C14 witness: a scoring run of 3 batches returned; its 1st and 3rd batches
\* failed, its 2nd wrote the score of photo 11, which is still there
C14_Witness ==
    /\ run.kind = "score" /\ run.pc = "returned"
    /\ run.statuses = <<"failed", "ok", "failed">>
    /\ photos[BATCH_SIZE + 1].score # NULL
    /\ photos[1].score = NULL

\* The completion events among the events of the scoring run
Completions == {k \in 1..Len(anEvents) : anEvents[k].message = "complete"}

Held(src) == \E id \in PhotosOf(up.projectId) : photos[id].file_hash = src.hash

\* C16: an upload of bytes that the project holds already counts a duplicate and
\* leaves the tables, the files and the directories as they are
C16_DuplicateChangesNothing ==
    [][(UploadStep /\ Head(up.filePaths).readable /\ Held(Head(up.filePaths))) =>
          /\ UNCHANGED storeVars
          /\ up'.duplicates = up.duplicates + 1
          /\ up'.photos = up.photos]_vars

\* C16 witness: a request of one file ended as a duplicate in a project whose
\* directory and whose photo's original are gone from disk, and stay gone
C16_Witness ==
    /\ up.pc = "returned" /\ up.total = 1 /\ up.duplicates = 1
    /\ up.projectId \in DOMAIN projects
    /\ getProjectPath(projects[up.projectId].name) \notin dirs
    /\ \E id \in PhotosOf(up.projectId) : photos[id].original_path \notin DOMAIN disk

\* The name with suffix _k before its extension
Suffixed(name, k) == FileName(Append(name.stem, CounterStr(k)), name.ext)

\* No two photos of a project share an original path
UniqueOriginalPath ==
    \A p, q \in DOMAIN photos :
        (photos[p].project_id = photos[q].project_id
            /\ photos[p].original_path = photos[q].original_path) => p = q

\* The upload step stores a new file under the name of src when that name is free
\* in originals, else under the first free name among name_1, name_2, ...; every
\* file that was in originals is still there with its content
StoresUnderFreeName ==
    (UploadStep /\ Head(up.filePaths).readable /\ ~Held(Head(up.filePaths))) =>
        LET src == Head(up.filePaths)
            dir == getProjectPath(projects[up.projectId].name)
            taken(name) == Path(dir, "originals", name) \in DOMAIN disk
        IN  /\ \E id \in DOMAIN photos' \ DOMAIN photos :
                  LET row == photos'[id]
                  IN  /\ row.original_path = Path(dir, "originals", row.original_filename)
                      /\ ~taken(row.original_filename)
                      /\ row.original_path \in DOMAIN disk'
                      /\ disk'[row.original_path] = [kind |-> "original", of |-> src.hash]
                      /\ IF ~taken(src.name)
                         THEN row.original_filename = src.name
                         ELSE \E k \in 1..MaxPhotoId :
                                 /\ row.original_filename = Suffixed(src.name, k)
                                 /\ \A j \in 1..(k - 1) : taken(Suffixed(src.name, j))
            /\ \A p \in DOMAIN disk :
                  p.sub = "originals" => (p \in DOMAIN disk' /\ disk'[p] = disk[p])

\* C17: a new file whose name is taken in originals is stored under the first
\* free suffixed name, no file of originals is overwritten, and no two photos of
\* a project share an original path
C17_SuffixOnNameCollision ==
    [][StoresUnderFreeName /\ UniqueOriginalPath']_vars

\* C18: whatever the thumbnail producer does, an upload step on a new readable
\* file does not fail and persists one row, whose thumbnail path holds a file: a
\* thumbnail or a placeholder in thumbnails, or else the stored original itself
C18_ThumbnailFailureKeepsIngest ==
    [][(UploadStep /\ Head(up.filePaths).readable /\ ~Held(Head(up.filePaths))) =>
          /\ up'.pc = "loop"
          /\ up'.uploaded = up.uploaded + 1
          /\ Cardinality(DOMAIN photos' \ DOMAIN photos) = 1
          /\ \A id \in DOMAIN photos' \ DOMAIN photos :
                LET row == photos'[id]
                IN  /\ row.file_hash = Head(up.filePaths).hash
                    /\ row.thumbnail_path \in DOMAIN disk'
                    /\ \/ /\ row.thumbnail_path.sub = "thumbnails"
                          /\ disk'[row.thumbnail_path].kind \in {"thumb", "placeholder"}
                       \/ /\ row.thumbnail_path = row.original_path
                          /\ disk'[row.thumbnail_path].kind = "original"]_vars

\* C18 witness: a request ended with two photos ingested, one with a placeholder
\* at its thumbnail path and one that fell back to its original
C18_Witness ==
    /\ up.pc = "returned" /\ up.uploaded = 2
    /\ \E p, q \in DOMAIN photos :
          /\ photos[p].thumbnail_path \in DOMAIN disk
          /\ disk[photos[p].thumbnail_path].kind = "placeholder"
          /\ photos[q].thumbnail_path = photos[q].original_path
          /\ photos[q].original_path \in DOMAIN disk

\* A step that starts an upload request, and one that starts a scoring or a
\* grouping request: only the handlers' entries change up or run while no loop runs
UploadRequest == Idle /\ up' # up
RunRequest == Idle /\ run' # run

\* C19: an upload, scoring or grouping request that names a project which is not
\* in the store throws an explicit error and has no effect: the tables, the files
\* and the directories are unchanged, no call is made, no progress event is sent
\* (the log of scoring events is empty after a scoring request, and as it was
\* after a grouping request, which sends none)
C19_MissingProjectFailsFirst ==
    [][/\ (UploadRequest /\ up'.projectId \notin DOMAIN projects) =>
              /\ up'.pc = "threw"
              /\ up'.error = "Project not found"
              /\ up'.uploaded = 0 /\ up'.duplicates = 0 /\ up'.photos = <<>>
              /\ upEvents' = <<>>
              /\ UNCHANGED storeVars
              /\ UNCHANGED runVars
       /\ (RunRequest /\ run'.projectId \notin DOMAIN projects) =>
              /\ run'.kind \in {"score", "group"}
              /\ run'.pc = "threw"
              /\ run'.error \in {"API key not configured", "Project not found"}
              /\ run'.calls = 0
              /\ bat' = NoBatch
              /\ anEvents' = IF run'.kind = "score" THEN <<>> ELSE anEvents
              /\ UNCHANGED storeVars
              /\ UNCHANGED uploadVars
       /\ (up.pc = "threw" /\ up.error = "Project not found") => upEvents = <<>>
       /\ run.pc = "threw" =>
              /\ run.calls = 0
              /\ bat = NoBatch
              /\ run.kind = "score" => anEvents = <<>>
      ]_vars

\* C19 witness: an upload request and a grouping request have failed on projects
\* that are not in the store, the latter on a project that was there before,
\* while a photo of the store holds a group id
C19_Witness ==
    /\ up.pc = "threw" /\ up.error = "Project not found"
    /\ run.kind = "group" /\ run.pc = "threw" /\ run.error = "Project not found"
    /\ run.projectId \in 1..MaxProjects
    /\ run.projectId \notin DOMAIN projects
    /\ \E id \in DOMAIN photos : photos[id].similarity_group_id # NULL

\* The group ids that photos of the project hold in table P
GroupIdsOf(P, projectId) ==
    {g \in {P[id].similarity_group_id : id \in DOMAIN P} :
        /\ g # NULL
        /\ \E id \in DOMAIN P : P[id].project_id = projectId /\ P[id].similarity_group_id = g}

\* C20: when a grouping run returns, its value is the number of distinct group
\* ids that photos of its project hold in the store at that moment, which is at
\* most the number of ids the run allocated
C20_ReturnsDistinctGroups ==
    [][(run'.kind = "group" /\ run'.pc = "returned" /\ run' # run) =>
          /\ run'.result = Cardinality(GroupIdsOf(photos', run'.projectId))
          /\ run'.result <= run'.nextGroupId - 1]_vars

\* C20 witness: a grouping run returned fewer groups than the ids it allocated
C20_Witness ==
    /\ run.kind = "group" /\ run.pc = "returned"
    /\ run.result >= 1
    /\ run.result < run.nextGroupId - 1
    /\ run.result = Cardinality(GroupIdsOf(photos, run.projectId))

\* C21: the estimate of 0 photos is all zero; the estimate of n > 0 photos has
\* the least batchCount with 10 * batchCount >= n (1 for 1..10 photos),
\* 1550 * n + 250 * batchCount input tokens and 100 * n output tokens
C21_EstimateCounts ==
    (calc.op = "estimate" /\ calc.done) =>
        LET n == Len(calc.input)
            e == calc.output
        IN  /\ e.photoCount = n
            /\ n = 0 => /\ e.batchCount = 0
                        /\ e.estimatedInputTokens = 0
                        /\ e.estimatedOutputTokens = 0
                        /\ e.estimatedCost = 0
            /\ n > 0 => /\ 10 * e.batchCount >= n
                        /\ 10 * (e.batchCount - 1) < n
                        /\ n <= 10 => e.batchCount = 1
                        /\ e.estimatedInputTokens = 1550 * n + 250 * e.batchCount
                        /\ e.estimatedOutputTokens = 100 * n

\* C21 witness: the estimate of 11 photos has 2 batches
C21_Witness ==
    /\ calc.op = "estimate" /\ calc.done
    /\ Len(calc.input) = 11
    /\ calc.output.batchCount = 2
    /\ calc.output.estimatedInputTokens = 17550

\* A scoring or grouping run returns in this step, its only batch having succeeded
RunSucceeds(kind) ==
    /\ run.kind = kind /\ run.pc = "loop"
    /\ run'.pc = "returned"
    /\ run'.statuses = <<"ok">>

\* C22: end to end in one project. The upload of three files of distinct content
\* returns with three photos, all unscored and ungrouped; a scoring run over the
\* three whose service evaluates each within range leaves the three scores set and
\* within 0.0 .. 10.0; a grouping run over the three whose service groups photos
\* 1 and 2 leaves one group id, held by photos 1 and 2 and not by photo 3
C22_EndToEnd ==
    [][/\ (up.pc = "loop" /\ up'.pc = "returned" /\ up'.duplicates = 0) =>
              /\ up'.uploaded = 3
              /\ up'.photos = <<1, 2, 3>>
              /\ DOMAIN photos' = {1, 2, 3}
              /\ {photos'[id].file_hash : id \in DOMAIN photos'} = {"h1", "h2", "h3"}
              /\ \A id \in DOMAIN photos' :
                    /\ photos'[id].project_id = 1
                    /\ photos'[id].score = NULL
                    /\ photos'[id].similarity_group_id = NULL
       /\ (RunSucceeds("score") /\ Len(run'.photos) = 3) =>
              /\ run'.result = 3
              /\ \A id \in {1, 2, 3} :
                    /\ photos'[id].score # NULL
                    /\ photos'[id].score[1] \in 0..100
       /\ (RunSucceeds("group") /\ Len(run'.photos) = 3) =>
              /\ run'.result = 1
              /\ photos'[1].similarity_group_id # NULL
              /\ photos'[2].similarity_group_id = photos'[1].similarity_group_id
              /\ photos'[3].similarity_group_id = NULL
      ]_vars

\* C22 witness: the three photos are uploaded, scored and grouped
C22_Witness ==
    /\ up.pc = "returned" /\ up.uploaded = 3
    /\ run.kind = "group" /\ run.pc = "returned" /\ run.result = 1
    /\ \A id \in {1, 2, 3} : photos[id].score # NULL
    /\ photos[1].score = Some(86)
    /\ photos[1].similarity_group_id = photos[2].similarity_group_id
    /\ photos[1].similarity_group_id # NULL
    /\ photos[3].similarity_group_id = NULL

\* The text is one fenced block: it starts and ends with a fence
Fenced(text) == Len(text) >= 2 /\ text[1] = "fence" /\ text[Len(text)] = "fence"

\* What a fenced block encloses: the text between its fences, after the json tag
\* if there is one, without the whitespace around it
Enclosed(text) ==
    LET inner == SubSeq(text, 2, Len(text) - 1)
    IN  trim(IF inner # <<>> /\ Head(inner) = "json" THEN Tail(inner) ELSE inner)

\* A fenced block around a JSON document parses to what the document parses to
FencedParsesAsBare ==
    (calc.op = "parseResponse" /\ calc.done /\ Fenced(calc.input)
        /\ ~JSONparse(Enclosed(calc.input)).threw) =>
        calc.output = JSONparse(Enclosed(calc.input)).items

\* A text without a fenced block parses to what its trimmed whole parses to
UnfencedParsesWhole ==
    (calc.op = "parseResponse" /\ calc.done
        /\ Cardinality({i \in 1..Len(calc.input) : calc.input[i] = "fence"}) < 2) =>
        calc.output = JSONparse(trim(calc.input)).items

\* C23: a response that is a fenced block around a JSON document, with the json
\* tag or without, parses to the same result as the document alone; a response
\* without a fenced block parses as its whole trimmed text
C23_FenceParsesAsBareJson == FencedParsesAsBare /\ UnfencedParsesWhole

\* C24: a step that deletes a project deletes every photo row of that project and
\* leaves every other photo row as it is
C24_DeleteCascades ==
    [][\A id \in DOMAIN projects \ DOMAIN projects' :
          /\ \A p \in DOMAIN photos :
                photos[p].project_id = id => p \notin DOMAIN photos'
          /\ \A p \in DOMAIN photos :
                photos[p].project_id # id => (p \in DOMAIN photos' /\ photos'[p] = photos[p])
          /\ DOMAIN photos' \subseteq DOMAIN photos]_vars

\* C24 witness: project 1 and its photo 1 are gone, project 2 holds its photo 2
C24_Witness ==
    /\ projectSeq = 2 /\ DOMAIN projects = {2}
    /\ photoSeq = 2 /\ DOMAIN photos = {2}
    /\ photos[2].project_id = 2

\* A photo row without the columns F
Mask(row, F) == [f \in DOMAIN row \ F |-> row[f]]

\* The step adds and removes no photo row and changes at most the columns F
ChangesOnly(F) ==
    /\ DOMAIN photos' = DOMAIN photos
    /\ \A id \in DOMAIN photos : Mask(photos'[id], F) = Mask(photos[id], F)

\* The photos whose row the step changes
Changed == {id \in DOMAIN photos \cap DOMAIN photos' : photos'[id] # photos[id]}

\* C25: a step of a scoring run changes at most score and ai_comment; a step of a
\* grouping run changes at most similarity_group_id, and of photos of the run's
\* project only; a step of an upload leaves every existing row as it is; any
\* other step is a selection update, which changes selected alone, or a clearing
\* of groups, which sets similarity_group_id to null in one project alone
C25_FieldOwnership ==
    [][/\ (run' # run /\ run'.kind = "score") => ChangesOnly({"score", "ai_comment"})
       /\ (run' # run /\ run'.kind = "group") =>
              /\ ChangesOnly({"similarity_group_id"})
              /\ \A id \in Changed : photos[id].project_id = run'.projectId
       /\ (up' # up) =>
              \A id \in DOMAIN photos : id \in DOMAIN photos' /\ photos'[id] = photos[id]
       /\ (run' = run /\ up' = up) =>
              \/ ChangesOnly({"selected"})
              \/ /\ ChangesOnly({"similarity_group_id"})
                 /\ \E projectId \in DOMAIN projects :
                       \A id \in Changed : /\ photos[id].project_id = projectId
                                           /\ photos'[id].similarity_group_id = NULL
      ]_vars

\* C25 witness: after uploads, runs and selection updates, a photo of project 1
\* is scored and selected, a photo of project 2 is grouped, unscored and unselected
C25_Witness ==
    /\ up.pc = "returned" /\ up.uploaded = 1
    /\ Cardinality(DOMAIN photos) = 4
    /\ \E a, b \in DOMAIN photos :
          /\ photos[a].project_id = 1 /\ photos[b].project_id = 2
          /\ photos[a].score # NULL /\ photos[a].selected
          /\ photos[a].similarity_group_id = NULL
          /\ photos[b].similarity_group_id # NULL
          /\ photos[b].score = NULL /\ ~photos[b].selected

\* The .jpg files in the exports directory `dir`, on disk D
ExportsIn(D, dir) ==
    {p \in DOMAIN D : p.dir = dir /\ p.sub = "exports" /\ p.name.ext = "jpg"}

\* C26: after an export of a project, the .jpg files of its exports directory are
\* exactly <name>_01.jpg .. <name>_NN.jpg for the NN photos exported, each the
\* conversion of a different selected photo of the project, and exported plus
\* skipped photos are the selected photos of the project
C26_ExportNumbering ==
    [][((calc' # calc \/ disk' # disk) /\ calc'.op = "PHOTOS_EXPORT"
            /\ ~calc'.output.threw) =>
          LET projectId == calc'.input
              out == calc'.output
              dir == out.exportPath
              selected == {id \in DOMAIN photos : /\ photos[id].project_id = projectId
                                                  /\ photos[id].selected}
              files == ExportsIn(disk', dir)
          IN  /\ out.count + out.skipped = Cardinality(selected)
              /\ files = {Path(dir, "exports", ExportFilename(dir, k)) : k \in 1..out.count}
              /\ \A p \in files : /\ disk'[p].kind = "export"
                                  /\ disk'[p].of \in {photos[id].file_hash : id \in selected}
              /\ Cardinality({disk'[p].of : p \in files}) = out.count
              /\ photos' = photos]_vars

\* C26 witness: of three selected photos the HEIC one was skipped, photo 1 failed
\* to convert and photo 3 was exported as t__01.jpg, the only .jpg in exports
C26_Witness ==
    /\ calc.op = "PHOTOS_EXPORT" /\ calc.input = 1 /\ ~calc.output.threw
    /\ calc.output.count = 1 /\ calc.output.skipped = 2
    /\ \A id \in 1..3 : photos[id].selected
    /\ ExportsIn(disk, <<"t", "_">>) =
          {Path(<<"t", "_">>, "exports", FileName(<<"t", "_", "01">>, "jpg"))}
    /\ disk[Path(<<"t", "_">>, "exports", FileName(<<"t", "_", "01">>, "jpg"))].of = "h3"

\* Score a is at most score b, a null score being the lowest
ScoreAtMost(a, b) == a = NULL \/ (b # NULL /\ a[1] <= b[1])

\* C27: the grouped view holds one photo of each group id of its input and each
\* ungrouped photo of its input, and nothing else; the photo it holds of a group
\* has a score that no photo of the group exceeds, a null score being the lowest
C27_GroupedViewShowsBest ==
    (calc.op = "getGroupedPhotos" /\ calc.done) =>
        LET input == calc.input
            view == calc.output
            groupIds == {input[i].similarity_group_id : i \in 1..Len(input)} \ {NULL}
            ungroupedPhotos == {i \in 1..Len(input) : input[i].similarity_group_id = NULL}
        IN  /\ Len(view) = Cardinality(groupIds) + Cardinality(ungroupedPhotos)
            /\ \A k \in 1..Len(view) : view[k] = input[view[k].id]
            /\ \A i \in ungroupedPhotos : \E k \in 1..Len(view) : view[k].id = i
            /\ \A g \in groupIds :
                  /\ Cardinality({k \in 1..Len(view) : view[k].similarity_group_id = g}) = 1
                  /\ \A k \in 1..Len(view) :
                        view[k].similarity_group_id = g =>
                            \A i \in 1..Len(input) :
                                input[i].similarity_group_id = g =>
                                    ScoreAtMost(input[i].score, view[k].score)

\* The batch is over: it resolved, it was skipped, or it was rejected, on an error
\* other than status 429 or on the 429 of its last allowed call
Finished(b) ==
    \/ b.status \in {"ok", "skipped"}
    \/ /\ b.status = "failed"
       /\ b.outcomes # <<>>
       /\ \/ b.outcomes[Len(b.outcomes)] \in {"err", "nolist"}
          \/ /\ b.outcomes[Len(b.outcomes)] = "429"
             /\ Len(b.outcomes) = RETRY_LIMIT + 1

\* C28: a service call of a run is made for the batch the loop is at, when every
\* batch before it is over; the first call of a batch is made with retry count 0
\* and the retry count of every call is the number of earlier calls of the same
\* batch, whatever the batches before it used
C28_BatchesInSequence ==
    [][(run.pc = "loop" /\ run'.calls = run.calls + 1) =>
          LET k == run.i \div SizeOf(run)
          IN  /\ Len(run.statuses) = k
              /\ \A j \in 1..k : run.statuses[j] \in {"ok", "failed", "skipped"}
              /\ k > 0 /\ run.retryCount = 0 => Finished(bat)
              /\ bat'.ids = slice(run.photos, run.i, SizeOf(run))
              /\ Len(bat'.outcomes) = run.retryCount + 1
              /\ Len(bat'.outcomes) = 1 <=> run.retryCount = 0
              /\ bat'.waits = [j \in 1..Len(bat'.waits) |-> j * RETRY_DELAY_MS]]_vars

\* The first batch of a scoring run used up its retries, and the first call of the
\* second batch, answered with status 429, is retried after the first delay
C28_Witness ==
    /\ run.kind = "score" /\ run.pc = "loop"
    /\ run.statuses = <<"failed">>
    /\ run.calls = RETRY_LIMIT + 2
    /\ bat.ids = slice(run.photos, BATCH_SIZE, BATCH_SIZE)
    /\ bat.outcomes = <<"429">>
    /\ bat.waits = <<RETRY_DELAY_MS>>
    /\ run.retryCount = 1

\* The photos of the batches 1..j of the scoring run that resolved
ProcessedAfter(j) ==
    Cardinality({p \in 1..Len(run.photos) :
                    LET b == (p - 1) \div BATCH_SIZE + 1
                    IN  b <= j /\ run.statuses[b] = "ok"})

\* The place, among the events of the run, of the first event sent after batch j
\* is over: one event before each batch, one more after each failed batch
EventAfter(j) ==
    j + Cardinality({b \in 1..(j - 1) : run.statuses[b] = "failed"}) + 1

\* The events of the scoring run carry its total and counts that never decrease
\* and never exceed the total
CountsInOrder ==
    /\ \A a \in 1..Len(anEvents) :
          /\ anEvents[a].total = run.total
          /\ anEvents[a].current <= run.total
    /\ \A a, b \in 1..Len(anEvents) :
          a <= b => anEvents[a].current <= anEvents[b].current

\* The last batch the scoring run is done with has no event after it yet
AwaitsEvent ==
    /\ run.kind = "score"
    /\ run.statuses # <<>>
    /\ Len(anEvents) < EventAfter(Len(run.statuses))

\* C29: in a scoring run every batch that is over is followed by a progress event
\* that carries the count of the photos processed up to that batch and the total;
\* the counts of the events never decrease and never exceed the total, and the
\* count of the last event of a run that returned is the value it returned
C29_ProgressAfterEveryBatch ==
    /\ [](run.kind = "score" => CountsInOrder)
    /\ [](run.kind = "score" =>
             \A j \in 1..Len(run.statuses) :
                EventAfter(j) <= Len(anEvents) =>
                   anEvents[EventAfter(j)].current = ProcessedAfter(j))
    /\ []((run.kind = "score" /\ run.pc = "returned" /\ anEvents # <<>>) =>
             anEvents[Len(anEvents)].current = run.result)
    /\ AwaitsEvent ~> ~AwaitsEvent

\* A scoring run of three batches returned 10: the first and the third batch
\* failed, the second resolved; six events, the last with count 10
C29_Witness ==
    /\ run.kind = "score" /\ run.pc = "returned"
    /\ run.statuses = <<"failed", "ok", "failed">>
    /\ run.result = BATCH_SIZE
    /\ [k \in 1..Len(anEvents) |-> anEvents[k].current]
          = <<0, 0, 0, BATCH_SIZE, BATCH_SIZE, BATCH_SIZE>>
    /\ [k \in 1..Len(anEvents) |-> anEvents[k].message]
          = <<"batch", "error", "batch", "batch", "error", "complete">>

\* The photos of the grouping run that are alone in their batch
AloneInBatch ==
    {run.photos[p] : p \in {q \in 1..Len(run.photos) :
                               Len(slice(run.photos,
                                         ((q - 1) \div GROUPING_BATCH_SIZE) * GROUPING_BATCH_SIZE,
                                         GROUPING_BATCH_SIZE)) < 2}}

\* C30: a grouping run over fewer than 2 photos has returned 0 without a batch and
\* without a service call; the step of a run at a batch of a single photo makes
\* no call, writes no row and moves on to the next batch; a photo that is alone
\* in its batch holds no group id at any point of the run
C30_SmallBatchesAreSkipped ==
    /\ []((run.kind = "group" /\ run.pc # "threw" /\ Len(run.photos) < 2) =>
             /\ run.pc = "returned" /\ run.result = 0
             /\ run.calls = 0 /\ bat = NoBatch)
    /\ [](run.kind = "group" =>
             \A id \in AloneInBatch : photos[id].similarity_group_id = NULL)
    /\ [][(/\ run.kind = "group" /\ run.pc = "loop"
           /\ run.i < Len(run.photos)
           /\ Len(slice(run.photos, run.i, GROUPING_BATCH_SIZE)) < 2) =>
             /\ run'.calls = run.calls
             /\ run'.statuses = Append(run.statuses, "skipped")
             /\ run'.i = run.i + GROUPING_BATCH_SIZE
             /\ bat'.outcomes = <<>>
             /\ photos' = photos]_vars

\* A grouping run over 21 photos returned one group: the batch of 20 was grouped
\* in one call, the batch of photo 21 was skipped and photo 21 holds no group id
C30_Witness ==
    /\ run.kind = "group" /\ run.pc = "returned"
    /\ Len(run.photos) = GROUPING_BATCH_SIZE + 1
    /\ run.statuses = <<"ok", "skipped">>
    /\ run.calls = 1 /\ run.result = 1
    /\ photos[1].similarity_group_id # NULL
    /\ photos[GROUPING_BATCH_SIZE + 1].similarity_group_id = NULL

\* A grouping run over the single photo of a project returned 0 without a call
C30_WitnessSmallProject ==
    /\ run.kind = "group" /\ run.pc = "returned"
    /\ Len(run.photos) = 1
    /\ run.result = 0 /\ run.calls = 0

\* The batch of the grouping run that holds the photo
BatchOf(id) ==
    ((CHOOSE p \in 1..Len(run.photos) : run.photos[p] = id) - 1) \div GROUPING_BATCH_SIZE

\* The rows a step writes
Written == {id \in DOMAIN photos : photos'[id] # photos[id]}

\* C31: a grouping run starts with next id 1 and with no group id in its project;
\* a step of the run either writes nothing and consumes no id, or consumes
\* exactly the next id and writes it to at least 2 photos, all of the batch at
\* hand; so the ids held in the run are below the next id, and two photos of the
\* run that hold the same id are of the same batch
C31_GroupIdsInOrder ==
    /\ [][(run.pc # "loop" /\ run'.kind = "group" /\ run'.pc # "threw") =>
             /\ run'.nextGroupId = 1
             /\ \A id \in Range(run'.photos) : photos'[id].similarity_group_id = NULL]_vars
    /\ [][(run.kind = "group" /\ run.pc = "loop") =>
             IF run'.nextGroupId = run.nextGroupId
             THEN Written = {}
             ELSE /\ run'.nextGroupId = run.nextGroupId + 1
                  /\ Cardinality(Written) >= 2
                  /\ Written \subseteq Range(slice(run.photos, run.i, GROUPING_BATCH_SIZE))
                  /\ \A id \in Written :
                        photos'[id].similarity_group_id = Some(run.nextGroupId)]_vars
    /\ [](run.kind = "group" =>
             /\ \A id \in Range(run.photos) :
                   photos[id].similarity_group_id # NULL =>
                      photos[id].similarity_group_id[1] \in 1..(run.nextGroupId - 1)
             /\ \A a, b \in Range(run.photos) :
                   (/\ photos[a].similarity_group_id # NULL
                    /\ photos[a].similarity_group_id = photos[b].similarity_group_id)
                      => BatchOf(a) = BatchOf(b))

\* A grouping run over 22 photos returned 2: photos 1 and 2 of the first batch
\* hold id 1, photos 21 and 22 of the second batch hold id 2
C31_Witness ==
    /\ run.kind = "group" /\ run.pc = "returned"
    /\ Len(run.photos) = GROUPING_BATCH_SIZE + 2
    /\ run.result = 2 /\ run.nextGroupId = 3
    /\ photos[1].similarity_group_id = Some(1)
    /\ photos[2].similarity_group_id = Some(1)
    /\ photos[GROUPING_BATCH_SIZE + 1].similarity_group_id = Some(2)
    /\ photos[GROUPING_BATCH_SIZE + 2].similarity_group_id = Some(2)

----------------------------------------------------------------------------
(* PHOTO_GROUP, with grouping runs in two projects of two photos each *)

\* SELECT * FROM photos WHERE similarity_group_id = ? ORDER BY score DESC, id, as
\* the ids of the rows in order; [] if the photo is missing or has no group
photoGroup(S, id) ==
    IF id \notin DOMAIN S.photos THEN <<>>
    ELSE IF S.photos[id].similarity_group_id \in {NULL, Some(0)} THEN <<>>
    ELSE LET ids == {x \in DOMAIN S.photos :
                        S.photos[x].similarity_group_id = S.photos[id].similarity_group_id}
         IN  [k \in 1..Cardinality(ids) |->
                 CHOOSE x \in ids :
                     Cardinality({y \in ids : Before(S.photos, y, x)}) = k - 1]

\* PHOTO_GROUP: a read, answered whatever else is in flight
PhotoGroup(id) ==
    /\ calc' = [op |-> "PHOTO_GROUP", input |-> id, output |-> photoGroup(Store, id),
                done |-> TRUE]
    /\ UNCHANGED <<storeVars, uploadVars, runVars, part, tasks, win>>

\* Photos 1, 2 in project 1 and photos 3, 4 in project 2
SharedStore == UploadedStore(RunStore(2), 2, 4, 4)

InitShared ==
    /\ projects = SharedStore.projects
    /\ projectSeq = SharedStore.projectSeq
    /\ photos = SharedStore.photos
    /\ photoSeq = SharedStore.photoSeq
    /\ disk = SharedStore.disk
    /\ dirs = SharedStore.dirs
    /\ up = NoUpload
    /\ upEvents = <<>>
    /\ run = NoRun
    /\ bat = NoBatch
    /\ anEvents = <<>>
    /\ part = NoPart
    /\ calc = NoCalc
    /\ tasks = NoTasks
    /\ win = OneWindow

\* The responses to a grouping request: one proposal, of the two photos of a
\* project or of one photo of each, or an error
SharedProposals == {[photo_ids |-> <<1, 2>>], [photo_ids |-> <<3, 4>>], [photo_ids |-> <<2, 3>>]}
SharedOutcomes ==
    {[kind |-> "429"], [kind |-> "err"]}
    \cup {[kind |-> "text", text |-> Text("none", FALSE, Body("list", <<p>>))] :
             p \in SharedProposals}

NextShared ==
    \/ \E projectId \in 1..MaxProjects : GroupSimilar(projectId, TRUE)
    \/ \E outcome \in SharedOutcomes : GroupBatch(outcome)
    \/ GroupReturn
    \/ \E projectId \in 1..MaxProjects : GroupClear(projectId)
    \/ \E id \in DOMAIN SharedStore.photos : PhotoGroup(id)

SpecShared == InitShared /\ [][NextShared]_vars

\* C32: the photos PHOTO_GROUP returns for a photo are photos of its project
C32_GroupListStaysInProject ==
    (calc.op = "PHOTO_GROUP" /\ calc.done) =>
        \A id \in Range(calc.output) :
            photos[id].project_id = photos[calc.input].project_id

\* PHOTO_GROUP returned, for a photo of a group, the photos of its project that
\* hold its group id
C32_ListOfOneProject ==
    /\ calc.op = "PHOTO_GROUP" /\ calc.done
    /\ Len(calc.output) = 2
    /\ \A id \in Range(calc.output) :
          photos[id].project_id = photos[calc.input].project_id

\* C33: two different photos of one project have different thumbnail paths
C33_ThumbnailPathsDistinct ==
    \A a, b \in DOMAIN photos :
        (a # b /\ photos[a].project_id = photos[b].project_id)
            => photos[a].thumbnail_path # photos[b].thumbnail_path

\* C34: a step that deletes a project leaves on disk, as they were, the original
\* and the thumbnail of every photo of the projects that remain
C34_DeleteKeepsOtherFiles ==
    [][(DOMAIN projects' # DOMAIN projects /\ DOMAIN projects' \subseteq DOMAIN projects) =>
          \A id \in DOMAIN photos' :
              \A path \in {photos[id].original_path, photos[id].thumbnail_path} :
                  path \in DOMAIN disk =>
                      path \in DOMAIN disk' /\ disk'[path] = disk[path]]_vars

----------------------------------------------------------------------------
(* Two PHOTOS_UPLOAD requests of one file each, handled at the same time: the  *)
(* handlers are async functions on one thread, so the code between two awaits  *)
(* of a request runs as one step and the requests interleave at the awaits     *)

MaxTasks == 2
MaxTaskPhotos == 3

\* A task that has not started. pc is the await the request is suspended at
IdleTask == [kind |-> "none", pc |-> "idle", projectId |-> 0, src |-> <<>>,
             originalFilename |-> <<>>, duplicate |-> FALSE, photo |-> 0, sent |-> 0]

\* The files the requests name: the same bytes under one name, and other bytes
TaskFiles ==
    {[name |-> FileName(<<"a">>, "jpg"), hash |-> "h1", readable |-> TRUE],
     [name |-> FileName(<<"a">>, "png"), hash |-> "h2", readable |-> TRUE]}

\* One project, no photo; no task has started
InitTasks ==
    /\ projects = createProject(EmptyStore, <<"u">>).projects
    /\ projectSeq = createProject(EmptyStore, <<"u">>).projectSeq
    /\ photos = <<>>
    /\ photoSeq = 0
    /\ disk = createProject(EmptyStore, <<"u">>).disk
    /\ dirs = createProject(EmptyStore, <<"u">>).dirs
    /\ up = NoUpload
    /\ upEvents = <<>>
    /\ run = NoRun
    /\ bat = NoBatch
    /\ anEvents = <<>>
    /\ part = NoPart
    /\ calc = NoCalc
    /\ tasks = [t \in 1..MaxTasks |-> IdleTask]
    /\ win = OneWindow

\* PHOTOS_UPLOAD(projectId, [src]) up to the first await of processUpload:
\* the project is looked up, fs.readFile is started
TaskUpload(t, projectId, src) ==
    /\ tasks[t].pc \in {"idle", "done"}
    /\ photoSeq < MaxTaskPhotos
    /\ projectId \in DOMAIN projects
    /\ tasks' = [tasks EXCEPT ![t] = [IdleTask EXCEPT !.kind = "upload", !.pc = "read",
                                                      !.projectId = projectId,
                                                      !.src = src]]
    /\ UNCHANGED <<storeVars, uploadVars, runVars, part, calc, win>>

\* readFile has resolved: the hash, the lookup of the duplicate, and either the
\* return of the duplicate (and the progress event of the handler) or the start
\* of createDirectories
TaskRead(t) ==
    /\ tasks[t].kind = "upload" /\ tasks[t].pc = "read"
    /\ IF FindByHash(Store, tasks[t].projectId, tasks[t].src.hash) # {}
       THEN /\ tasks' = [tasks EXCEPT ![t].pc = "done", ![t].duplicate = TRUE,
                                      ![t].sent = 1]
            /\ UNCHANGED storeVars
       ELSE /\ tasks' = [tasks EXCEPT ![t].pc = "mkdir"]
            /\ SetStore(createDirectories(Store, projects[tasks[t].projectId].name))
    /\ UNCHANGED <<uploadVars, runVars, part, calc, win>>

\* createDirectories has resolved: the loop over existsSync picks the name of the
\* original, fs.copyFile is started
TaskMkdir(t) ==
    /\ tasks[t].kind = "upload" /\ tasks[t].pc = "mkdir"
    /\ LET dir == getProjectPath(projects[tasks[t].projectId].name)
       IN  tasks' = [tasks EXCEPT
                        ![t].pc = "copy",
                        ![t].originalFilename =
                            FreeName(Store, dir, tasks[t].src.name, tasks[t].src.name, 1)]
    /\ UNCHANGED <<storeVars, uploadVars, runVars, part, calc, win>>

\* copyFile has resolved: the original is on disk; sharp is started
TaskCopy(t) ==
    /\ tasks[t].kind = "upload" /\ tasks[t].pc = "copy"
    /\ LET dir == getProjectPath(projects[tasks[t].projectId].name)
           originalPath == Path(dir, "originals", tasks[t].originalFilename)
       IN  disk' = Put(disk, originalPath, [kind |-> "original", of |-> tasks[t].src.hash])
    /\ tasks' = [tasks EXCEPT ![t].pc = "thumb"]
    /\ UNCHANGED <<projects, projectSeq, photos, photoSeq, dirs,
                   uploadVars, runVars, part, calc, win>>

\* The thumbnail is written, or not: the row is inserted, processUpload returns
\* and the handler sends its progress event and returns
TaskThumb(t, thumb) ==
    /\ tasks[t].kind = "upload" /\ tasks[t].pc = "thumb"
    /\ LET dir == getProjectPath(projects[tasks[t].projectId].name)
           originalPath == Path(dir, "originals", tasks[t].originalFilename)
           thumbnailPath == Path(dir, "thumbnails", ThumbnailName(tasks[t].originalFilename))
           thumbnailGenerated == thumb # "none"
           id == photoSeq + 1
           row == [project_id |-> tasks[t].projectId,
                   original_filename |-> tasks[t].originalFilename,
                   original_path |-> originalPath,
                   thumbnail_path |->
                       FinalThumbnailPath(thumbnailGenerated, thumbnailPath, originalPath),
                   file_hash |-> tasks[t].src.hash,
                   score |-> NULL,
                   ai_comment |-> NULL,
                   selected |-> FALSE,
                   similarity_group_id |-> NULL]
       IN  /\ disk' = IF thumbnailGenerated
                      THEN Put(disk, thumbnailPath,
                               [kind |-> thumb, of |-> tasks[t].src.hash])
                      ELSE disk
           /\ photos' = Put(photos, id, row)
           /\ photoSeq' = id
           /\ tasks' = [tasks EXCEPT ![t].pc = "done", ![t].photo = id, ![t].sent = 1]
    /\ UNCHANGED <<projects, projectSeq, dirs, uploadVars, runVars, part, calc, win>>

NextTasks ==
    \/ \E t \in 1..MaxTasks, src \in TaskFiles : TaskUpload(t, 1, src)
    \/ \E t \in 1..MaxTasks : TaskRead(t)
    \/ \E t \in 1..MaxTasks : TaskMkdir(t)
    \/ \E t \in 1..MaxTasks : TaskCopy(t)
    \/ \E t \in 1..MaxTasks, thumb \in ThumbOutcomes : TaskThumb(t, thumb)

SpecTasks == InitTasks /\ [][NextTasks]_vars

\* C35: no two photos of a project hold the same file hash, also when upload
\* requests for the project interleave at their awaits
C35_HashUniqueUnderInterleaving ==
    \A a, b \in DOMAIN photos :
        (a # b /\ photos[a].project_id = photos[b].project_id)
            => photos[a].file_hash # photos[b].file_hash

\* Two requests have run one after the other with the same bytes: the second
\* was answered as a duplicate
C35_SequentialDuplicate ==
    /\ tasks # NoTasks
    /\ tasks[1].pc = "done" /\ tasks[1].photo = 1
    /\ tasks[2].pc = "done" /\ tasks[2].duplicate
    /\ tasks[2].src = tasks[1].src

----------------------------------------------------------------------------
(* Two GROUP_SIMILAR requests handled at the same time: each has its own       *)
(* service object, with its own next group id; they interleave at the awaits   *)
(* of their service calls                                                      *)

\* A grouping request that has not started. proposals: the sets of photos that
\* the responses to this run have named together so far
IdleGrouping == [kind |-> "none", pc |-> "idle", projectId |-> 0, photos |-> <<>>,
                 i |-> 0, nextGroupId |-> 1, retryCount |-> 0, proposals |-> {},
                 result |-> 0]

\* Project 1 holds photos 1, 2, 3; no request has started
InitGroupings ==
    /\ projects = RunStore(3).projects
    /\ projectSeq = RunStore(3).projectSeq
    /\ photos = RunStore(3).photos
    /\ photoSeq = RunStore(3).photoSeq
    /\ disk = RunStore(3).disk
    /\ dirs = RunStore(3).dirs
    /\ up = NoUpload
    /\ upEvents = <<>>
    /\ run = NoRun
    /\ bat = NoBatch
    /\ anEvents = <<>>
    /\ part = NoPart
    /\ calc = NoCalc
    /\ tasks = [t \in 1..MaxTasks |-> IdleGrouping]
    /\ win = OneWindow

\* The loop of groupPhotos from index i on, up to its next service call: a batch
\* of fewer than 2 photos is passed over, and past the last batch the groups of
\* the project are counted and returned
LoopFrom(task, i, S) ==
    IF Len(task.photos) - i < 2
    THEN [task EXCEPT !.pc = "done", !.i = i, !.retryCount = 0,
                      !.result = CountGroups(S, task.projectId)]
    ELSE [task EXCEPT !.pc = "call", !.i = i, !.retryCount = 0]

\* GROUP_SIMILAR(projectId) up to its first service call: a new service object,
\* the groups of the project cleared, its photos selected
TaskGroupSimilar(t, projectId) ==
    /\ tasks[t].pc \in {"idle", "done"}
    /\ projectId \in DOMAIN projects
    /\ photos' = ClearExisting(photos, projectId)
    /\ LET list == ProjectPhotos(Store, projectId)
           task == [IdleGrouping EXCEPT !.kind = "group", !.projectId = projectId,
                                        !.photos = list]
       IN  tasks' = [tasks EXCEPT ![t] =
                        IF Len(list) < 2 THEN [task EXCEPT !.pc = "done"]
                        ELSE LoopFrom(task, 0, [Store EXCEPT !.photos = photos'])]
    /\ UNCHANGED <<projects, projectSeq, photoSeq, disk, dirs,
                   uploadVars, runVars, part, calc, win>>

\* The service call of the request settles: the groups of the response are
\* assigned, or the call is made again after a 429, or the batch has failed;
\* then the loop goes on to its next call or returns
TaskGroupCall(t, outcome) ==
    /\ tasks[t].kind = "group" /\ tasks[t].pc = "call"
    /\ LET task == tasks[t]
           batch == slice(task.photos, task.i, GROUPING_BATCH_SIZE)
           parsed == parseGroupResponse(outcome.text)
           tag == Tag(outcome, parsed)
           next == task.i + GROUPING_BATCH_SIZE
       IN  CASE tag = "ok" ->
                  LET r == assignGroups(photos, batch, parsed.items, task.nextGroupId, {})
                      named == {Range(parsed.items[k].photo_ids) :
                                   k \in 1..Len(parsed.items)}
                  IN  /\ photos' = r.photos
                      /\ tasks' = [tasks EXCEPT ![t] =
                                     LoopFrom([task EXCEPT !.nextGroupId = r.nextGroupId,
                                                           !.proposals = @ \cup named],
                                              next, [Store EXCEPT !.photos = r.photos])]
             [] tag \in {"429", "err"} /\ GroupShouldRetry(tag, task.retryCount) ->
                  /\ tasks' = [tasks EXCEPT ![t].retryCount = @ + 1]
                  /\ UNCHANGED photos
             [] OTHER ->
                  /\ tasks' = [tasks EXCEPT ![t] = LoopFrom(task, next, Store)]
                  /\ UNCHANGED photos
    /\ UNCHANGED <<projects, projectSeq, photoSeq, disk, dirs,
                   uploadVars, runVars, part, calc, win>>

\* The responses to the grouping requests: one proposal, an empty list, an error
TaskProposals ==
    {[photo_ids |-> <<1, 2>>], [photo_ids |-> <<2, 3>>], [photo_ids |-> <<1, 2, 3>>]}
TaskOutcomes ==
    {[kind |-> "429"], [kind |-> "err"]}
    \cup {[kind |-> "text", text |-> Text("none", FALSE, Body("list", items))] :
             items \in SeqsUpTo(TaskProposals, 1)}

NextGroupings ==
    \/ \E t \in 1..MaxTasks : TaskGroupSimilar(t, 1)
    \/ \E t \in 1..MaxTasks, outcome \in TaskOutcomes : TaskGroupCall(t, outcome)

SpecGroupings == InitGroupings /\ [][NextGroupings]_vars

\* C36: two photos of the project that hold the same group id were named together
\* in one proposal of one of the grouping runs
C36_GroupsComeFromOneProposal ==
    \A a, b \in DOMAIN photos :
        (/\ a # b
         /\ photos[a].project_id = 1 /\ photos[b].project_id = 1
         /\ photos[a].similarity_group_id # NULL
         /\ photos[a].similarity_group_id = photos[b].similarity_group_id)
            => \E t \in DOMAIN tasks : \E named \in tasks[t].proposals : {a, b} \subseteq named

\* C37: a scoring run lists exactly the photos of its project whose score is null
\* when it starts; the photos of a batch are photos of that list; a step of the
\* run leaves every row outside the list as it is, and a batch that fails leaves
\* every row as it is, so its photos are listed again by the next run
C37_OnlyUnscoredPhotos ==
    /\ [][(run.pc # "loop" /\ run'.kind = "score" /\ run'.pc # "threw" /\ run' # run) =>
             /\ Range(run'.photos) =
                   {id \in DOMAIN photos : /\ photos[id].project_id = run'.projectId
                                           /\ photos[id].score = NULL}
             /\ photos' = photos]_vars
    /\ [][(run.kind = "score" /\ run.pc = "loop") =>
             /\ Range(bat'.ids) \subseteq Range(run.photos)
             /\ \A id \in DOMAIN photos \ Range(run.photos) : photos'[id] = photos[id]
             /\ (bat' # bat /\ bat'.status = "failed") => photos' = photos
             /\ \A id \in Range(run.photos) :
                   photos'[id].score = NULL => photos'[id] = photos[id]]_vars

\* Photo 1 holds a score; a scoring run has started on the project of photos 1
\* and 2 and lists photo 2 alone, the photo an earlier run left unscored
C37_Witness ==
    /\ run.kind = "score" /\ run.pc = "loop" /\ run.projectId = 1
    /\ run.calls = 0
    /\ run.photos = <<2>>
    /\ {1, 2} \subseteq DOMAIN photos
    /\ photos[1].project_id = 1 /\ photos[1].score # NULL
    /\ photos[2].project_id = 1 /\ photos[2].score = NULL

----------------------------------------------------------------------------
(* The cost confirmation: ANALYZE_ESTIMATE_COST, then ANALYZE_PHOTOS on the    *)
(* same project with nothing in between                                        *)

\* ANALYZE_ESTIMATE_COST: the estimate of the photos of the project without score
AnalyzeEstimateCost(projectId) ==
    /\ Idle
    /\ calc' = [op |-> "ANALYZE_ESTIMATE_COST", input |-> projectId,
                output |-> estimate(UnscoredPhotos(Store, projectId)), done |-> TRUE]
    /\ UNCHANGED <<storeVars, uploadVars, runVars, part, tasks, win>>

\* How many photos of project 1 hold a score already: none, one, or all
ScoredCounts(n) == {0, 1, n}

\* Project 1 holds 11, 21 or 22 photos, the first k of them scored
InitConfirm ==
    /\ \E n \in MultiPhotoCounts : \E k \in ScoredCounts(n) :
          /\ projects = BulkStore(n).projects
          /\ projectSeq = BulkStore(n).projectSeq
          /\ photos = [id \in DOMAIN BulkStore(n).photos |->
                          IF id <= k
                          THEN [BulkStore(n).photos[id] EXCEPT !.score = Some(50),
                                                               !.ai_comment = Some("c")]
                          ELSE BulkStore(n).photos[id]]
          /\ photoSeq = BulkStore(n).photoSeq
          /\ disk = BulkStore(n).disk
          /\ dirs = BulkStore(n).dirs
    /\ up = NoUpload
    /\ upEvents = <<>>
    /\ run = NoRun
    /\ bat = NoBatch
    /\ anEvents = <<>>
    /\ part = NoPart
    /\ calc = NoCalc
    /\ tasks = NoTasks
    /\ win = OneWindow

\* The estimate is asked for, then the run is started once, on the same project
NextConfirm ==
    \/ \E projectId \in 1..MaxProjects :
          run.kind = "none" /\ AnalyzeEstimateCost(projectId)
    \/ \E projectId \in 1..MaxProjects :
          /\ run.kind = "none"
          /\ calc.done /\ calc.input = projectId
          /\ AnalyzePhotos(projectId, TRUE)
    \/ \E outcome \in MultiScoreOutcomes : AnalyzeBatch(outcome)
    \/ AnalyzeReturn

SpecConfirm == InitConfirm /\ [][NextConfirm]_vars

\* C38: every batch the scoring run passes has made a service call, and when the
\* run has returned the number of its batches is the batchCount of the estimate
\* taken right before it
C38_EstimateMatchesRun ==
    /\ [][(run.kind = "score" /\ run'.statuses # run.statuses) =>
             bat'.outcomes # <<>>]_vars
    /\ []((run.kind = "score" /\ run.pc = "returned") =>
             /\ calc.output.photoCount = Len(run.photos)
             /\ calc.output.batchCount = Len(run.statuses))

\* The estimate for 21 photos without score showed 3 batches, and the run that
\* followed returned after 3 batches, the second of them after 4 calls
C38_Witness ==
    /\ run.kind = "score" /\ run.pc = "returned"
    /\ Len(run.photos) = 2 * BATCH_SIZE + 1
    /\ calc.output.batchCount = 3
    /\ run.statuses = <<"ok", "failed", "ok">>
    /\ run.calls = 6

----------------------------------------------------------------------------
(* The two views of a group: the grouped project view, computed from the       *)
(* PHOTOS_LIST rows, and the group detail view, computed from the PHOTO_GROUP  *)
(* rows. The photos are those of one project                                   *)

\* ORDER BY score DESC, created_at DESC: a is strictly before b. A null score is
\* the smallest value; rows equal in both columns come in any order
ListedBefore(P, a, b) ==
    IF P[a].score = P[b].score THEN P[a].created_at > P[b].created_at
    ELSE IF P[a].score = NULL THEN FALSE
    ELSE IF P[b].score = NULL THEN TRUE
    ELSE P[a].score[1] > P[b].score[1]

\* PHOTOS_LIST: the orders in which the rows of the table may be returned
photosList(P) ==
    {[k \in DOMAIN order |-> P[order[k]]] :
        order \in {o \in [DOMAIN P -> DOMAIN P] :
                      /\ \A i, j \in DOMAIN P : i # j => o[i] # o[j]
                      /\ \A i, j \in DOMAIN P : i < j => ~ListedBefore(P, o[j], o[i])}}

\* SimilarGroup: groupPhotos.length > 0 ? groupPhotos.reduce(...) : null, as the id
bestPhoto(groupPhotos) ==
    IF Len(groupPhotos) > 0 THEN Some(ReduceBest(Head(groupPhotos), Tail(groupPhotos)).id)
    ELSE NULL

\* The detail view of the group of photo id: PHOTO_GROUP(id), then bestPhoto
BestInGroup(P, id) ==
    LET ids == photoGroup([photos |-> P], id)
    IN  bestPhoto([k \in 1..Len(ids) |-> P[ids[k]]])

\* The times of insertion of photos 1..n, in seconds: never decreasing with the id
CreatedAt(n) == {c \in [1..n -> 1..2] : \A i, j \in 1..n : i < j => c[i] <= c[j]}

\* The scores a photo of the tables holds: none, 5.0 or 8.6
BestScores == {NULL, Some(50), Some(86)}

\* The photos tables: photos 1..n of one project
BestInputs ==
    UNION {{[id \in 1..n |-> [id |-> id, score |-> scores[id],
                              similarity_group_id |-> groups[id],
                              created_at |-> created[id]]] :
               scores \in [1..n -> BestScores], groups \in [1..n -> ViewGroups],
               created \in CreatedAt(n)} :
           n \in 1..MaxViewPhotos}

InitBest == InitCalc("views", BestInputs)

\* The project page in grouped mode and the detail page of each photo: `view` is
\* the list the project page shows, best[id] the photo the detail page of photo
\* id marks as best
ShowViews ==
    /\ calc.op = "views"
    /\ \E list \in photosList(calc.input) :
          Return([view |-> getGroupedPhotos(list),
                  best |-> [id \in DOMAIN calc.input |-> BestInGroup(calc.input, id)]])

NextBest == ShowViews

SpecBest == InitBest /\ [][NextBest]_vars

\* C39: the photo the grouped view shows for a group is the photo the detail view
\* of the group marks as best
C39_SameBestPhoto ==
    (calc.op = "views" /\ calc.done) =>
        \A k \in 1..Len(calc.output.view) :
            calc.output.view[k].similarity_group_id # NULL =>
                calc.output.best[calc.output.view[k].id] = Some(calc.output.view[k].id)

\* The same, for the groups in which one photo has a score above all the others
C39_SameBestPhotoWithoutTies ==
    (calc.op = "views" /\ calc.done) =>
        \A k \in 1..Len(calc.output.view) :
            LET p == calc.output.view[k]
                others == {id \in DOMAIN calc.input :
                              /\ id # p.id
                              /\ calc.input[id].similarity_group_id = p.similarity_group_id}
            IN  (/\ p.similarity_group_id # NULL
                 /\ \A id \in others : ListedBefore(calc.input, p.id, id)
                 /\ p.score # NULL)
                    => calc.output.best[p.id] = Some(p.id)

----------------------------------------------------------------------------
(* The window is closed and a new one is made on activate (macOS, where the *)
(* application stays alive without a window), between requests              *)

MaxWindows == 3

\* The TypeError of mainWindow.webContents on a destroyed BrowserWindow
ObjectDestroyed == "Object has been destroyed"

\* registerIpcHandlers(mainWindow): the handlers are registered once, with the
\* window of the first call; every later call returns before ipcMain.handle
handlersRegistered(w) == w.bound # 0
registerIpcHandlers(w, window) == IF handlersRegistered(w) THEN w.bound ELSE window

\* createWindow(): a new BrowserWindow, then registerIpcHandlers(mainWindow)
createWindow(w) ==
    [current |-> w.opened + 1, opened |-> w.opened + 1,
     bound |-> registerIpcHandlers(w, w.opened + 1)]

\* mainWindow.on('closed'): mainWindow = null, the BrowserWindow is destroyed
WindowClosed ==
    /\ Idle
    /\ win.current # 0
    /\ win' = [win EXCEPT !.current = 0]
    /\ UNCHANGED <<storeVars, uploadVars, runVars, part, calc, tasks>>

\* app.on('activate'): createWindow() if mainWindow === null
Activate ==
    /\ win.current = 0
    /\ win.opened < MaxWindows
    /\ win' = createWindow(win)
    /\ UNCHANGED <<storeVars, uploadVars, runVars, part, calc, tasks>>

\* The renderer of the window that exists invokes PHOTOS_UPLOAD, ANALYZE_PHOTOS
WindowPhotosUpload(projectId, filePaths) ==
    /\ win.current # 0
    /\ PhotosUpload(projectId, filePaths)

WindowAnalyzePhotos(projectId, hasKey) ==
    /\ win.current # 0
    /\ AnalyzePhotos(projectId, hasKey)

\* One turn of the upload loop when the window of the handlers is destroyed:
\* the file is processed and counted, then mainWindow.webContents throws and
\* the request is rejected
UploadNextDestroyed(thumb) ==
    /\ UNCHANGED <<part, calc, tasks, win>>
    /\ ~WindowAlive
    /\ up.pc = "loop"
    /\ up.filePaths # <<>>
    /\ UNCHANGED <<runVars, upEvents>>
    /\ LET src == Head(up.filePaths)
           r == processUpload(Store, up.projectId, src, thumb)
       IN  /\ r.store.photoSeq <= MaxPhotoId
           /\ IF r.threw
              THEN /\ up' = [up EXCEPT !.pc = "threw", !.error = "readFile"]
                   /\ UNCHANGED storeVars
              ELSE /\ SetStore(r.store)
                   /\ up' = [up EXCEPT
                         !.pc = "threw", !.error = ObjectDestroyed,
                         !.duplicates = IF r.duplicate THEN @ + 1 ELSE @,
                         !.uploaded = IF r.duplicate THEN @ ELSE @ + 1,
                         !.photos = IF r.duplicate THEN @ ELSE Append(@, r.photo)]

\* The first turn of the scoring loop when the window of the handlers is
\* destroyed: onProgress throws before analyzeBatch is called
AnalyzeBatchDestroyed ==
    /\ UNCHANGED <<part, calc, tasks, win>>
    /\ ~WindowAlive
    /\ run.kind = "score" /\ run.pc = "loop"
    /\ run.i < Len(run.photos)
    /\ run.retryCount = 0
    /\ run' = [run EXCEPT !.pc = "threw", !.error = ObjectDestroyed]
    /\ UNCHANGED <<storeVars, uploadVars, bat, anEvents>>

\* Project 1 is empty and project 2 has one photo, in the first window
InitWindow == InitRun(0)

NextWindow ==
    \/ WindowClosed
    \/ Activate
    \/ \E projectId \in ProjectIds, filePaths \in SeqsUpTo(SourceFiles, 1) :
          WindowPhotosUpload(projectId, filePaths)
    \/ \E thumb \in ThumbOutcomes : UploadFile(thumb)
    \/ \E thumb \in ThumbOutcomes : UploadNextDestroyed(thumb)
    \/ UploadReturn
    \/ \E projectId \in ProjectIds, hasKey \in BOOLEAN :
          WindowAnalyzePhotos(projectId, hasKey)
    \/ \E outcome \in RetryOutcomes : AnalyzeBatch(outcome)
    \/ AnalyzeBatchDestroyed
    \/ AnalyzeReturn

SpecWindow == InitWindow /\ [][NextWindow]_vars

\* A step of a request that is being handled
WindowStep ==
    \/ \E thumb \in ThumbOutcomes : UploadFile(thumb)
    \/ \E thumb \in ThumbOutcomes : UploadNextDestroyed(thumb)
    \/ UploadReturn
    \/ \E outcome \in RetryOutcomes : AnalyzeBatch(outcome)
    \/ AnalyzeBatchDestroyed
    \/ AnalyzeReturn

SpecWindowLive == SpecWindow /\ WF_vars(WindowStep)

\* An upload or scoring request was rejected by the send of a progress event
RejectedBySend == up.error = ObjectDestroyed \/ run.error = ObjectDestroyed

\* A progress event is sent only to the window that exists
EventToCurrentWindow ==
    (upEvents' # upEvents /\ upEvents' # <<>>) \/ (anEvents' # anEvents /\ anEvents' # <<>>)
        => WindowAlive

\* C40: after the main window is closed and a new window is made on activate,
\* upload and scoring requests still run to completion (no request is rejected
\* by the send of a progress event, and every request that is being handled
\* returns or fails for a reason of its own), and their progress events are
\* delivered to the window that exists, never to the closed one.
C40_RequestsServeCurrentWindow ==
    /\ [] ~RejectedBySend
    /\ [][EventToCurrentWindow]_vars
    /\ (~Idle ~> Idle)

\* While the first window is open the requests are served as the claim says
C40_FirstWindowIsServed == win.opened = 1 => ~RejectedBySend

\* A request made from the second window was rejected by the send
C40_SecondWindowRejected == win.current = 2 /\ RejectedBySend

====
